---- MODULE Spec2Model ----
(***************************************************************************)
(* A model of PoDoFo's stream devices (auxiliary/StreamDevice.cpp) and of  *)
(* the two-phase signing context (main/PdfSigningContext.h).               *)
(*                                                                         *)
(* size_t and ssize_t are modelled as WordBits-wide machine words: a       *)
(* size_t is a value of 0 .. SizeMax, an ssize_t a value of                *)
(* SSizeMin .. SSizeMax, and every unsigned operation is taken modulo      *)
(* 2^WordBits, as the casts and sums of the code are.                      *)
(***************************************************************************)
EXTENDS Integers, Sequences, FiniteSets, TLC

\* ------------------------------------------------------------------------
\* Machine words
\* ------------------------------------------------------------------------

\* Width of size_t / ssize_t in the model (64 in the build).
WordBits == 3

\* The count of calls on a device saturates at MaxCalls.
MaxCalls == 2

\* The largest content length a host stream starts with.
MaxHostLength == 2

\* The most host close calls followed on one file handle.
MaxCloses == 3

\* The signature fields of the document, and the most signers registered on
\* one signing context.
MaxFields == 2
MaxSigners == 3

\* Width of a byte in the model (8 in the build): a built-in encoding has
\* 2 ^ ByteBits codes (256 in the build).
ByteBits == 1

\* Unicode code points are 0 .. MaxCodePoint.
MaxCodePoint == 2

\* The longest text of bytes handed to a decoder.
MaxTextLen == 2

\* The most single mappings of a PdfCharCodeMap, and the most bytes of a
\* char code in one.
MaxMappings == 2
MaxCodeBytes == 2
\* The longest buffer behind a SpanStreamDevice whose content is followed.
MaxSpanLength == 2

SizeMod == 2 ^ WordBits
SizeMax == SizeMod - 1
SSizeMax == 2 ^ (WordBits - 1) - 1
SSizeMin == -(2 ^ (WordBits - 1))

SizeT == 0 .. SizeMax
SSizeT == SSizeMin .. SSizeMax

\* (size_t)x : conversion to the unsigned word, modulo 2^WordBits.
ToSize(x) == x % SizeMod

Min(a, b) == IF a <= b THEN a ELSE b

\* ------------------------------------------------------------------------
\* Error kinds, enumerations
\* ------------------------------------------------------------------------

NoError == "None"
IOError == "IOError"
ValueOutOfRange == "ValueOutOfRange"
InvalidEnumValue == "InvalidEnumValue"
\* Not an error kind: the process ended (undefined behaviour in a host call).
Aborted == "Aborted"

Begin == "Begin"
Current == "Current"
End == "End"
\* A SeekDirection value that is none of the three enumerators.
BadDirection == "BadDirection"

SeekDirection == {Begin, Current, End, BadDirection}

\* The outcome of a call: the error raised (NoError when it returns) and the
\* value returned.
Raise(kind) == [err |-> kind, val |-> 0]
Return(v) == [err |-> NoError, val |-> v]

\* ------------------------------------------------------------------------
\* StreamDevice::SeekPosition
\* ------------------------------------------------------------------------

\* Mutant: the Begin branch checks the upper bound against the current
\* position instead of the device length.
SeekBeginCurposBound(curpos, devlen, offset) ==
    IF offset < 0
    THEN Raise(IOError)
    ELSE IF ToSize(offset) > curpos
         THEN Raise(ValueOutOfRange)
         ELSE Return(ToSize(offset))

SeekBegin(curpos, devlen, offset) ==
    IF offset < 0
    THEN Raise(IOError)
    ELSE IF ToSize(offset) > devlen
         THEN Raise(ValueOutOfRange)
         ELSE Return(ToSize(offset))

\* Mutant: the backward bound of the Current branch is off by one.
SeekCurrentOffByOne(curpos, devlen, offset) ==
    IF offset = 0
    THEN Return(curpos)
    ELSE IF offset > 0 /\ ToSize(offset) > ToSize(devlen - curpos)
         THEN Raise(ValueOutOfRange)
         ELSE IF offset < 0 /\ ToSize(-offset) > curpos + 1
              THEN Raise(ValueOutOfRange)
              ELSE Return(ToSize(curpos + ToSize(offset)))

\* (size_t)-offset of the most negative ssize_t is 2^(WordBits-1): the
\* negation wraps on the two's complement targets of the build.
SeekCurrent(curpos, devlen, offset) ==
    IF offset = 0
    THEN Return(curpos)
    ELSE IF offset > 0 /\ ToSize(offset) > ToSize(devlen - curpos)
         THEN Raise(ValueOutOfRange)
         ELSE IF offset < 0 /\ ToSize(-offset) > curpos
              THEN Raise(ValueOutOfRange)
              ELSE Return(ToSize(curpos + ToSize(offset)))

\* Mutant: the End branch accepts a positive offset.
SeekEndForward(curpos, devlen, offset) ==
    IF offset <= 0 /\ ToSize(-offset) > devlen
    THEN Raise(ValueOutOfRange)
    ELSE Return(ToSize(devlen + ToSize(offset)))

SeekEnd(curpos, devlen, offset) ==
    IF offset > 0
    THEN Raise(IOError)
    ELSE IF ToSize(-offset) > devlen
         THEN Raise(ValueOutOfRange)
         ELSE Return(ToSize(devlen + ToSize(offset)))

SeekPosition(curpos, devlen, offset, direction) ==
    CASE direction = Begin -> SeekBegin(curpos, devlen, offset)
      [] direction = Current -> SeekCurrent(curpos, devlen, offset)
      [] direction = End -> SeekEnd(curpos, devlen, offset)
      [] OTHER -> Raise(InvalidEnumValue)

\* ------------------------------------------------------------------------
\* State
\* ------------------------------------------------------------------------

VARIABLES
    \* a call of the static SeekPosition: its arguments and its outcome
    sk_curpos, sk_devlen, sk_offset, sk_direction, sk_called, sk_result,
    \* one stream device: its variant and its DeviceAccess
    dev_kind, dev_access,
    \* NullStreamDevice / SpanStreamDevice members
    m_Length, m_Position,
    \* the bytes of the caller-owned buffer behind a SpanStreamDevice, and
    \* the outputs of the last read: the bytes transferred to the caller's
    \* buffer, and the ch of readChar and peek
    m_buffer, r_buffer, r_ch,
    \* the host stream behind a StandardStreamDevice or FileStreamDevice:
    \* content length, read and write position indicators (a FILE has one
    \* indicator: the two are equal), eof and fail flags, and whether the
    \* stream buffer refuses positions outside [0, length] (in-memory
    \* buffers do, file buffers do not), and what it last wrote and where
    h_len, h_gpos, h_ppos, h_eof, h_fail, h_bounded, h_wrote,
    \* the last call on the device (operation, arguments, and the position
    \* and length the device reported when it was made), its outcome, the
    \* eof output of a read, and the number of calls since construction
    call, res, res_eof, nops,
    \* the file system and the build: whether the path names an existing
    \* file, and whether the build is one for _WIN32
    fs_exists, win32,
    \* one FileStreamDevice over that path: the stage of its life, its m_file
    \* member, the state of the host handle behind it, the last createFile
    \* request with the mode string it handed to the host open (and whether
    \* it reached the host open), the last call and its outcome, and the
    \* numbers of host close calls made and failed on the handle, the result
    \* of the host close made by the last close() ("none" when it made none),
    \* and the number of close() calls since construction (it saturates at
    \* MaxCloses)
    f_stage, m_file, f_handle, f_request, f_cmode, f_fopen, f_call, f_res,
    f_closes, f_failed, f_rc, f_ncalls,
    \* one PdfSigningContext: its state, whether the running procedure is
    \* the sequential one, the step a running StartSigning / Sign has
    \* reached ("idle" between calls), the registered signers, the contexts
    \* prepared for them, what the saved document holds at each signer's
    \* beacon, the last call with its outcome, the ids of the results
    \* StartSigning returned, the ids the last FinishSigning was given, and
    \* the ids ever given to a FinishSigning
    s_state, s_sequential, s_pc, m_signers, m_contexts, s_beacon,
    s_call, s_res, s_intermediate, s_processed, s_supplied,
    \* one encoding map: its class, its PdfEncodingMapType, whether it
    \* supports ligatures, the limits of a PdfEncodingMapOneByte, the forward
    \* table GetToUnicodeTable() of a PdfBuiltInEncoding with the reverse
    \* table built from it on first use, the PdfCharCodeMap behind a
    \* PdfEncodingMapBase, the last call (operation, arguments, and what the
    \* caller's output argument held before it), its outcome, and what the
    \* last serializer wrote to its stream
    e_kind, m_Type, e_ligatures, m_Limits, cpUnicodeTable, m_EncodingTable,
    m_charMap, e_call, e_res, e_stream,
    \* two PdfSignerId values, and what comparing and hashing them gave
    id_a, id_b, id_res

seekVars == <<sk_curpos, sk_devlen, sk_offset, sk_direction, sk_called, sk_result>>
memVars == <<m_Length, m_Position>>
bufVars == <<m_buffer, r_buffer, r_ch>>
hostVars == <<h_len, h_gpos, h_ppos, h_eof, h_fail, h_bounded, h_wrote>>
devVars == <<dev_kind, dev_access, memVars, bufVars, hostVars, call, res, res_eof, nops>>

fileVars == <<fs_exists, win32, f_stage, m_file, f_handle, f_request, f_cmode,
              f_fopen, f_call, f_res, f_closes, f_failed, f_rc, f_ncalls>>

signVars == <<s_state, s_sequential, s_pc, m_signers, m_contexts, s_beacon,
              s_call, s_res, s_intermediate, s_processed, s_supplied>>

encVars == <<e_kind, m_Type, e_ligatures, m_Limits, cpUnicodeTable, m_EncodingTable,
             m_charMap, e_call, e_res, e_stream>>
idVars == <<id_a, id_b, id_res>>
vars == <<seekVars, devVars, fileVars, signVars, encVars, idVars>>

notSeekVars == <<devVars, fileVars, signVars, encVars, idVars>>
notDevVars == <<seekVars, fileVars, signVars, encVars, idVars>>
notFileVars == <<seekVars, devVars, signVars, encVars, idVars>>
notSignVars == <<seekVars, devVars, fileVars, encVars, idVars>>
notEncVars == <<seekVars, devVars, fileVars, signVars, idVars>>
notIdVars == <<seekVars, devVars, fileVars, signVars, encVars>>

\* ------------------------------------------------------------------------
\* A call of SeekPosition
\* ------------------------------------------------------------------------

SeekIdle ==
    /\ sk_curpos = 0
    /\ sk_devlen = 0
    /\ sk_offset = 0
    /\ sk_direction = Begin
    /\ sk_called = FALSE
    /\ sk_result = Return(0)

SeekArguments ==
    /\ sk_curpos \in SizeT
    /\ sk_devlen \in SizeT
    /\ sk_offset \in SSizeT
    /\ sk_direction \in SeekDirection
    /\ sk_called = FALSE
    /\ sk_result = Return(0)

CallSeekPosition ==
    /\ ~sk_called
    /\ sk_called' = TRUE
    /\ sk_result' = SeekPosition(sk_curpos, sk_devlen, sk_offset, sk_direction)
    /\ UNCHANGED <<sk_curpos, sk_devlen, sk_offset, sk_direction>>
    /\ UNCHANGED notSeekVars

\* ------------------------------------------------------------------------
\* The four stream devices
\* ------------------------------------------------------------------------

Standard == "StandardStreamDevice"
File == "FileStreamDevice"
Null == "NullStreamDevice"
Span == "SpanStreamDevice"

Read == "Read"
Write == "Write"
ReadWrite == "ReadWrite"
DeviceAccess == {Read, Write, ReadWrite}

\* The largest size of an object (a caller's buffer, a span) and the
\* largest offset of a host file: the largest ssize_t.
MaxObjectSize == SSizeMax

\* What the host stream last wrote: nothing yet, or size bytes at a position.
NoWrite == [done |-> FALSE, at |-> 0, size |-> 0]

NoCall == [op |-> "none", size |-> 0, offset |-> 0, direction |-> Begin,
           pos |-> 0, len |-> 0]

\* Whether the device uses the input side of a standard stream as its
\* reference (Read and ReadWrite) or the output side (Write).
UsesInputSide == dev_access \in {Read, ReadWrite}

GetLength ==
    IF dev_kind \in {Null, Span} THEN m_Length ELSE h_len

GetPosition ==
    CASE dev_kind \in {Null, Span} -> m_Position
      [] dev_kind = File -> h_gpos
      [] OTHER -> IF UsesInputSide THEN h_gpos ELSE h_ppos

Eof ==
    IF dev_kind \in {Null, Span} THEN m_Position = m_Length ELSE h_eof

SizeCall(name, size) ==
    [op |-> name, size |-> size, offset |-> 0, direction |-> Begin,
     pos |-> GetPosition, len |-> GetLength]

SeekCall(offset, direction) ==
    [op |-> "seek", size |-> 0, offset |-> offset, direction |-> direction,
     pos |-> GetPosition, len |-> GetLength]

CountCall == nops' = Min(nops + 1, MaxCalls)

DevIdle ==
    /\ dev_kind = Null
    /\ dev_access = ReadWrite
    /\ m_Length = 0
    /\ m_Position = 0
    /\ m_buffer = << >>
    /\ r_buffer = << >>
    /\ r_ch = 0
    /\ h_len = 0
    /\ h_gpos = 0
    /\ h_ppos = 0
    /\ h_eof = FALSE
    /\ h_fail = FALSE
    /\ h_bounded = FALSE
    /\ h_wrote = NoWrite
    /\ call = NoCall
    /\ res = Return(0)
    /\ res_eof = FALSE
    /\ nops = 0

\* A buffer of size null characters.
Zeros(size) == [i \in 1 .. size |-> 0]

\* The state after construction of one device of any of the four variants;
\* the buffer behind a span holds null characters.
DevConstructed ==
    /\ dev_kind \in {Standard, File, Null, Span}
    /\ dev_access \in (IF dev_kind = Standard THEN DeviceAccess ELSE {ReadWrite})
    /\ m_Length \in (IF dev_kind = Span THEN 0 .. MaxObjectSize ELSE {0})
    /\ m_Position = 0
    /\ m_buffer = Zeros(m_Length)
    /\ r_buffer = << >>
    /\ r_ch = 0
    /\ h_len \in (IF dev_kind \in {Standard, File} THEN 0 .. MaxHostLength ELSE {0})
    /\ h_gpos = 0
    /\ h_ppos = 0
    /\ h_eof = FALSE
    /\ h_fail = FALSE
    /\ h_bounded \in (IF dev_kind = Standard THEN BOOLEAN ELSE {FALSE})
    /\ h_wrote = NoWrite
    /\ call = NoCall
    /\ res = Return(0)
    /\ res_eof = FALSE
    /\ nops = 0

\* ---- The host streams ---------------------------------------------------

\* The position a host seek (fseek, seekg, seekp) aims at.
HostSeekTarget(position, length, offset, direction) ==
    CASE direction = Begin -> offset
      [] direction = Current -> position + offset
      [] direction = End -> length + offset

\* A host seek fails on a negative position and on one that is no file
\* offset; an in-memory stream buffer also fails on a position past the end
\* of its content. A file accepts a position past its end.
HostSeekFails(target, length, bounded) ==
    \/ target < 0
    \/ target > MaxObjectSize
    \/ (bounded /\ target > length)

\* ---- NullStreamDevice ---------------------------------------------------

NullWritePosition(position, size) == ToSize(position + size)

\* Mutant: a write past the length leaves the length alone.
NullWriteLengthKept(length, position) == length

\* if (m_Position > m_Length) m_Length = m_Position;
NullWriteLength(length, position) == IF position > length THEN position ELSE length

NullWriteBuffer(size) ==
    /\ dev_kind = Null
    /\ m_Position' = NullWritePosition(m_Position, size)
    /\ m_Length' = NullWriteLength(m_Length, m_Position')
    /\ call' = SizeCall("write", size)
    /\ res' = Return(0)
    /\ CountCall
    /\ UNCHANGED <<dev_kind, dev_access, hostVars, res_eof>>
    /\ UNCHANGED bufVars
    /\ UNCHANGED notDevVars

\* Mutant: the read does not clamp the new position to the length.
NullReadPositionUnclamped(length, position, size) == ToSize(position + size)

NullReadPosition(length, position, size) == Min(length, ToSize(position + size))

NullReadBuffer(size) ==
    /\ dev_kind = Null
    /\ m_Position' = NullReadPosition(m_Length, m_Position, size)
    /\ res_eof' = (m_Position' = m_Length)
    /\ res' = Return(ToSize(m_Position' - m_Position))
    /\ call' = SizeCall("read", size)
    /\ CountCall
    /\ UNCHANGED <<dev_kind, dev_access, m_Length, hostVars>>
    /\ UNCHANGED bufVars
    /\ UNCHANGED notDevVars

\* Mutant: readChar answers whether a position was available.
NullReadCharAvailable(length, position) == position # length

\* What readChar returns: false at the end, and false after advancing.
NullReadCharReturns(length, position) == FALSE

\* NullStreamDevice::readChar(ch)
NullReadChar ==
    /\ dev_kind = Null
    /\ r_ch' = 0
    /\ m_Position' = IF m_Position = m_Length THEN m_Position
                                               ELSE ToSize(m_Position + 1)
    /\ res' = Return(NullReadCharReturns(m_Length, m_Position))
    /\ call' = SizeCall("readChar", 0)
    /\ CountCall
    /\ UNCHANGED <<dev_kind, dev_access, m_Length, m_buffer, r_buffer, hostVars, res_eof>>
    /\ UNCHANGED notDevVars

\* NullStreamDevice::peek(ch)
NullPeek ==
    /\ dev_kind = Null
    /\ r_ch' = 0
    /\ res' = Return(m_Length # m_Position)
    /\ call' = SizeCall("peek", 0)
    /\ CountCall
    /\ UNCHANGED <<dev_kind, dev_access, memVars, m_buffer, r_buffer, hostVars, res_eof>>
    /\ UNCHANGED notDevVars

\* Mutant: the seek moves the position without consulting SeekPosition.
MemSeekUnchecked(kind, offset, direction) ==
    /\ dev_kind = kind
    /\ res' = Return(0)
    /\ m_Position' = ToSize(HostSeekTarget(m_Position, m_Length, offset, direction))
    /\ call' = SeekCall(offset, direction)
    /\ CountCall
    /\ UNCHANGED <<dev_kind, dev_access, m_Length, hostVars, res_eof>>
    /\ UNCHANGED bufVars
    /\ UNCHANGED notDevVars

\* m_Position = SeekPosition(...): nothing is assigned when it raises.
MemSeek(kind, offset, direction) ==
    /\ dev_kind = kind
    /\ LET r == SeekPosition(m_Position, m_Length, offset, direction)
       IN /\ res' = r
          /\ m_Position' = IF r.err = NoError THEN r.val ELSE m_Position
    /\ call' = SeekCall(offset, direction)
    /\ CountCall
    /\ UNCHANGED <<dev_kind, dev_access, m_Length, hostVars, res_eof>>
    /\ UNCHANGED bufVars
    /\ UNCHANGED notDevVars

NullSeek(offset, direction) == MemSeek(Null, offset, direction)

\* ---- SpanStreamDevice ---------------------------------------------------

\* Mutant: a write that ends exactly at the end of the span is refused.
SpanWriteFitsStrict(length, position, size) == ToSize(position + size) < length

\* m_Position + size > m_Length raises
SpanWriteFits(length, position, size) == ~(ToSize(position + size) > length)

\* std::memcpy(m_buffer + m_Position, buffer, size)
SpanCopyIn(span, position, buffer) ==
    [i \in 1 .. Len(span) |->
        IF position < i /\ i <= position + Len(buffer)
        THEN buffer[i - position]
        ELSE span[i]]

SpanWriteBuffer(buffer) ==
    /\ dev_kind = Span
    /\ IF SpanWriteFits(m_Length, m_Position, Len(buffer))
       THEN /\ m_buffer' = SpanCopyIn(m_buffer, m_Position, buffer)
            /\ m_Position' = ToSize(m_Position + Len(buffer))
            /\ res' = Return(0)
       ELSE /\ m_buffer' = m_buffer
            /\ m_Position' = m_Position
            /\ res' = Raise(ValueOutOfRange)
    /\ call' = SizeCall("write", Len(buffer))
    /\ CountCall
    /\ UNCHANGED <<dev_kind, dev_access, m_Length, r_buffer, r_ch, hostVars, res_eof>>
    /\ UNCHANGED notDevVars

\* std::memcpy(buffer, m_buffer + m_Position, readCount): the bytes the
\* caller's buffer receives
SpanCopyOut(span, position, readCount) ==
    [i \in 1 .. readCount |-> span[position + i]]

\* Mutant: the read leaves the position where it was.
SpanReadPositionKept(position, readCount) == position

\* m_Position += readCount
SpanReadPosition(position, readCount) == ToSize(position + readCount)

SpanReadBuffer(size) ==
    /\ dev_kind = Span
    /\ LET readCount == Min(size, ToSize(m_Length - m_Position))
       IN /\ r_buffer' = SpanCopyOut(m_buffer, m_Position, readCount)
          /\ m_Position' = SpanReadPosition(m_Position, readCount)
          /\ res' = Return(readCount)
    /\ res_eof' = (m_Position' = m_Length)
    /\ call' = SizeCall("read", size)
    /\ CountCall
    /\ UNCHANGED <<dev_kind, dev_access, m_Length, m_buffer, r_ch, hostVars>>
    /\ UNCHANGED notDevVars

\* SpanStreamDevice::readChar(ch)
SpanReadChar ==
    /\ dev_kind = Span
    /\ IF m_Position = m_Length
       THEN /\ r_ch' = 0
            /\ m_Position' = m_Position
            /\ res' = Return(FALSE)
       ELSE /\ r_ch' = m_buffer[m_Position + 1]
            /\ m_Position' = ToSize(m_Position + 1)
            /\ res' = Return(TRUE)
    /\ call' = SizeCall("readChar", 0)
    /\ CountCall
    /\ UNCHANGED <<dev_kind, dev_access, m_Length, m_buffer, r_buffer, hostVars, res_eof>>
    /\ UNCHANGED notDevVars

\* SpanStreamDevice::peek(ch)
SpanPeek ==
    /\ dev_kind = Span
    /\ IF m_Position = m_Length
       THEN /\ r_ch' = 0
            /\ res' = Return(FALSE)
       ELSE /\ r_ch' = m_buffer[m_Position + 1]
            /\ res' = Return(TRUE)
    /\ call' = SizeCall("peek", 0)
    /\ CountCall
    /\ UNCHANGED <<dev_kind, dev_access, memVars, m_buffer, r_buffer, hostVars, res_eof>>
    /\ UNCHANGED notDevVars

SpanSeek(offset, direction) == MemSeek(Span, offset, direction)

\* ---- FileStreamDevice ---------------------------------------------------

\* Mutant: the file device resolves its seeks through SeekPosition.
FileSeekRejectsChecked(position, length, offset, direction) ==
    SeekPosition(position, length, offset, direction).err # NoError

\* utls::fseek(m_file, offset, origin) != 0
FileSeekRejects(position, length, offset, direction) ==
    HostSeekFails(HostSeekTarget(position, length, offset, direction), length, FALSE)

FileSeek(offset, direction) ==
    /\ dev_kind = File
    /\ IF direction \notin {Begin, Current, End}
       THEN /\ res' = Raise(InvalidEnumValue)
            /\ UNCHANGED <<h_gpos, h_ppos, h_eof>>
       ELSE IF FileSeekRejects(h_gpos, h_len, offset, direction)
            THEN /\ res' = Raise(IOError)
                 /\ UNCHANGED <<h_gpos, h_ppos, h_eof>>
            ELSE /\ res' = Return(0)
                 /\ h_gpos' = HostSeekTarget(h_gpos, h_len, offset, direction)
                 /\ h_ppos' = h_gpos'
                 /\ h_eof' = FALSE
    /\ call' = SeekCall(offset, direction)
    /\ CountCall
    /\ UNCHANGED <<dev_kind, dev_access, memVars, h_len, h_fail, h_bounded, h_wrote, res_eof>>
    /\ UNCHANGED bufVars
    /\ UNCHANGED notDevVars

\* ---- StandardStreamDevice -----------------------------------------------

\* The eof flag is cleared first; the seek goes to the input side for Read
\* and ReadWrite and to the output side for Write; a stream whose fail flag
\* is set ignores the seek, and a failed seek sets the flag, which the
\* device never clears.
StandardSeek(offset, direction) ==
    /\ dev_kind = Standard
    /\ h_eof' = FALSE
    /\ IF direction \notin {Begin, Current, End}
       THEN /\ res' = Raise(InvalidEnumValue)
            /\ UNCHANGED <<h_gpos, h_ppos, h_fail>>
       ELSE LET target == HostSeekTarget(GetPosition, h_len, offset, direction)
                moved == ~h_fail /\ ~HostSeekFails(target, h_len, h_bounded)
            IN /\ h_fail' = ~moved
               /\ h_gpos' = IF moved /\ UsesInputSide THEN target ELSE h_gpos
               /\ h_ppos' = IF moved /\ ~UsesInputSide THEN target ELSE h_ppos
               /\ res' = IF h_fail' THEN Raise(IOError) ELSE Return(0)
    /\ call' = SeekCall(offset, direction)
    /\ CountCall
    /\ UNCHANGED <<dev_kind, dev_access, memVars, h_len, h_bounded, h_wrote, res_eof>>
    /\ UNCHANGED bufVars
    /\ UNCHANGED notDevVars

\* ------------------------------------------------------------------------
\* createFile and the life of a FileStreamDevice
\* ------------------------------------------------------------------------

CreateNew == "CreateNew"
Create == "Create"
Open == "Open"
OpenOrCreate == "OpenOrCreate"
Truncate == "Truncate"
\* FileMode::Append (Append names an operator of Sequences)
AppendMode == "Append"
\* A FileMode value that is none of the six enumerators.
BadMode == "BadMode"
FileMode == {CreateNew, Create, Open, OpenOrCreate, Truncate, AppendMode, BadMode}

\* A DeviceAccess value that is none of Read, Write, ReadWrite: the value
\* with no flag set.
BadAccess == "BadAccess"
FileAccess == DeviceAccess \cup {BadAccess}

\* (access & DeviceAccess::Write) != DeviceAccess{ }
HasWriteFlag(access) == access \in {Write, ReadWrite}

\* The outcome of the mode resolution: the error raised before any open, or
\* the mode string to open with.
Reject(kind) == [err |-> kind, cmode |-> ""]
OpenWith(cmode) == [err |-> NoError, cmode |-> cmode]

\* switch (access) of the writing modes: the string for Write, the string
\* for ReadWrite, InvalidEnumValue for anything else.
WriteSwitch(access, forWrite, forReadWrite) ==
    CASE access = Write -> OpenWith(forWrite)
      [] access = ReadWrite -> OpenWith(forReadWrite)
      [] OTHER -> Reject(InvalidEnumValue)

CreateFileCreateNew(access, exists) ==
    IF access = Read
    THEN Reject(IOError)
    ELSE IF exists
         THEN Reject(IOError)
         ELSE WriteSwitch(access, "w", "w+")

CreateFileCreate(access, exists) ==
    IF access = Read
    THEN Reject(IOError)
    ELSE WriteSwitch(access, "w", "w+")

\* Mutant: Open requires the file to exist for ReadWrite access only.
CreateFileOpenReadWriteOnly(access, exists) ==
    IF access = ReadWrite /\ ~exists
    THEN Reject(IOError)
    ELSE CASE access = Read -> OpenWith("r")
           [] access = Write -> OpenWith("w")
           [] access = ReadWrite -> OpenWith("r+")
           [] OTHER -> Reject(InvalidEnumValue)

CreateFileOpen(access, exists) ==
    IF HasWriteFlag(access) /\ ~exists
    THEN Reject(IOError)
    ELSE CASE access = Read -> OpenWith("r")
           [] access = Write -> OpenWith("w")
           [] access = ReadWrite -> OpenWith("r+")
           [] OTHER -> Reject(InvalidEnumValue)

\* Mutant: OpenOrCreate with ReadWrite always truncates.
CreateFileOpenOrCreateTruncating(access, exists) ==
    IF access = Read
    THEN Reject(IOError)
    ELSE WriteSwitch(access, "w", "w+")

CreateFileOpenOrCreate(access, exists) ==
    IF access = Read
    THEN Reject(IOError)
    ELSE WriteSwitch(access, "w", IF exists THEN "r+" ELSE "w+")

CreateFileTruncate(access, exists) ==
    IF access = Read
    THEN Reject(IOError)
    ELSE IF ~exists
         THEN Reject(IOError)
         ELSE WriteSwitch(access, "w", "w+")

CreateFileAppend(access, exists) ==
    IF access = Read
    THEN Reject(IOError)
    ELSE WriteSwitch(access, "a", "a+")

\* cmode.append("b") of a _WIN32 build
BinarySuffix(windows) == IF windows THEN "b" ELSE ""

\* The switch of createFile and the suffix: the error raised before the
\* host open, or the mode string handed to it.
ResolveMode(mode, access, exists, windows) ==
    LET r == CASE mode = CreateNew -> CreateFileCreateNew(access, exists)
               [] mode = Create -> CreateFileCreate(access, exists)
               [] mode = Open -> CreateFileOpen(access, exists)
               [] mode = OpenOrCreate -> CreateFileOpenOrCreate(access, exists)
               [] mode = Truncate -> CreateFileTruncate(access, exists)
               [] mode = AppendMode -> CreateFileAppend(access, exists)
               [] OTHER -> Reject(InvalidEnumValue)
    IN IF r.err = NoError THEN OpenWith(r.cmode \o BinarySuffix(windows)) ELSE r

\* The host open: the reading modes ("r", "r+", with or without the binary
\* suffix) need an existing file, the others create it; any open may fail
\* for a reason of the host (hostOk is FALSE).
HostOpenSucceeds(cmode, exists, hostOk) ==
    /\ hostOk
    /\ cmode \in {"r", "r+", "rb", "r+b"} => exists

NoRequest == [mode |-> Open, access |-> Read, exists |-> FALSE]

FileIdle ==
    /\ fs_exists = FALSE
    /\ win32 = FALSE
    /\ f_stage = "unconstructed"
    /\ m_file = "nullptr"
    /\ f_handle = "none"
    /\ f_request = NoRequest
    /\ f_cmode = ""
    /\ f_fopen = FALSE
    /\ f_call = "none"
    /\ f_res = Return(0)
    /\ f_closes = 0
    /\ f_failed = 0
    /\ f_rc = "none"
    /\ f_ncalls = 0

FileStart ==
    /\ fs_exists \in BOOLEAN
    /\ win32 \in BOOLEAN
    /\ f_stage = "unconstructed"
    /\ m_file = "nullptr"
    /\ f_handle = "none"
    /\ f_request = NoRequest
    /\ f_cmode = ""
    /\ f_fopen = FALSE
    /\ f_call = "none"
    /\ f_res = Return(0)
    /\ f_closes = 0
    /\ f_failed = 0
    /\ f_rc = "none"
    /\ f_ncalls = 0

\* FileStreamDevice(filepath, mode, access) : m_file(createFile(...)). When
\* createFile raises no device comes to exist. A new device may be made once
\* the previous one is destroyed.
Construct(mode, access, hostOk) ==
    /\ f_stage \in {"unconstructed", "destroyed"}
    /\ LET r == ResolveMode(mode, access, fs_exists, win32)
           opened == r.err = NoError /\ HostOpenSucceeds(r.cmode, fs_exists, hostOk)
       IN /\ f_fopen' = (r.err = NoError)
          /\ f_cmode' = r.cmode
          /\ f_res' = IF r.err # NoError THEN Raise(r.err)
                      ELSE IF opened THEN Return(0) ELSE Raise(IOError)
          /\ f_stage' = IF opened THEN "constructed" ELSE "unconstructed"
          /\ m_file' = IF opened THEN "handle" ELSE "nullptr"
          /\ f_handle' = IF opened THEN "open" ELSE "none"
          /\ fs_exists' = (fs_exists \/ opened)
    /\ f_request' = [mode |-> mode, access |-> access, exists |-> fs_exists]
    /\ f_call' = "createFile"
    /\ f_closes' = 0
    /\ f_failed' = 0
    /\ f_rc' = "none"
    /\ f_ncalls' = 0
    /\ UNCHANGED win32
    /\ UNCHANGED notFileVars

\* The results of the host close. On a handle that is open it returns 0 or
\* EOF; either way the handle is released. On a released handle the call is
\* undefined: it may return either value or abort the process.
HostCloseResults(handle) ==
    IF handle = "open" THEN {"0", "EOF"} ELSE {"0", "EOF", "abort"}

\* Mutant: m_file is left as it was after a successful host close.
FileAfterCloseKept(file, rc) == file

\* m_file = nullptr is reached only when the host close did not fail.
FileAfterClose(file, rc) == IF rc = "0" THEN "nullptr" ELSE file

\* close(): its outcome and what it leaves of the device, rc being the
\* result of the host close when one is made. Aborted stands for the
\* process ending inside the host close.
close(file, handle, rc) ==
    IF file = "nullptr"
    THEN [res |-> Return(0), file |-> file, handle |-> handle,
          closes |-> 0, failed |-> 0, rc |-> rc]
    ELSE [res |-> CASE rc = "0" -> Return(0)
                    [] rc = "EOF" -> Raise(IOError)
                    [] OTHER -> Raise(Aborted),
          file |-> FileAfterClose(file, rc),
          handle |-> "released",
          closes |-> 1,
          failed |-> IF rc = "0" THEN 0 ELSE 1,
          rc |-> rc]

\* The host close results a call of close() may meet.
CloseInputs ==
    IF m_file = "nullptr"
    THEN {"0"}
    ELSE IF f_closes < MaxCloses THEN HostCloseResults(f_handle) ELSE {}

ApplyClose(c) ==
    /\ m_file' = c.file
    /\ f_handle' = c.handle
    /\ f_closes' = f_closes + c.closes
    /\ f_failed' = f_failed + c.failed
    /\ f_rc' = IF c.closes = 0 THEN "none" ELSE c.rc
    /\ f_ncalls' = Min(f_ncalls + 1, MaxCloses)

Close(rc) ==
    /\ f_stage = "constructed"
    /\ rc \in CloseInputs
    /\ LET c == close(m_file, f_handle, rc)
       IN /\ ApplyClose(c)
          /\ f_res' = c.res
          /\ f_stage' = IF c.res.err = Aborted THEN "aborted" ELSE f_stage
    /\ f_call' = "close"
    /\ UNCHANGED <<fs_exists, win32, f_request, f_cmode, f_fopen>>
    /\ UNCHANGED notFileVars

\* catch (...) { } of the destructor: what close() raised goes no further.
DestructorCatch(outcome) ==
    IF outcome.err = Aborted THEN outcome ELSE Return(0)

\* ~FileStreamDevice(): try { close(); } catch (...) { }
Destroy(rc) ==
    /\ f_stage = "constructed"
    /\ rc \in CloseInputs
    /\ LET c == close(m_file, f_handle, rc)
       IN /\ ApplyClose(c)
          /\ f_res' = DestructorCatch(c.res)
          /\ f_stage' = IF c.res.err = Aborted THEN "aborted" ELSE "destroyed"
    /\ f_call' = "destructor"
    /\ UNCHANGED <<fs_exists, win32, f_request, f_cmode, f_fopen>>
    /\ UNCHANGED notFileVars

\* ------------------------------------------------------------------------
\* PdfSigningContext
\* ------------------------------------------------------------------------

InternalLogic == "InternalLogic"
\* The error of a FinishSigning that finds a signer without a result.
SigningFailure == "SigningFailure"

Unstarted == "Unstarted"
Preparing == "Preparing"
Saved == "Saved"
AwaitingExternalSignatures == "AwaitingExternalSignatures"
Finalized == "Finalized"

\* PdfSignerId: the reference of the signature field and the signer index.
PdfSignerId(ref, signerIndex) == [ref |-> ref, index |-> signerIndex]

SignerIds ==
    {PdfSignerId(ref, i) : ref \in 1 .. MaxFields, i \in 0 .. MaxSigners - 1}

\* The signers registered on a signature field.
SignersOf(ref) == {id \in m_signers : id.ref = ref}

SignStart ==
    /\ s_state = Unstarted
    /\ s_sequential = FALSE
    /\ s_pc = "idle"
    /\ m_signers = {}
    /\ m_contexts = {}
    /\ s_beacon = [id \in SignerIds |-> "none"]
    /\ s_call = "none"
    /\ s_res = Return(0)
    /\ s_intermediate = {}
    /\ s_processed = {}
    /\ s_supplied = {}

\* Mutant: only a finished context refuses the calls that need a fresh one.
NotFinalized == s_state # Finalized

\* ensureNotStarted()
NotStarted == s_state = Unstarted

\* A call refused because the context is not in the state the call needs.
RefuseCall(name) ==
    /\ s_call' = name
    /\ s_res' = Raise(InternalLogic)
    /\ UNCHANGED <<s_state, s_sequential, s_pc, m_signers, m_contexts, s_beacon,
                   s_intermediate, s_processed, s_supplied>>

\* AddSigner(signature, signer): the new signer gets the next index of its
\* field.
AddSigner(ref) ==
    /\ s_pc = "idle"
    /\ IF NotStarted
       THEN /\ Cardinality(m_signers) < MaxSigners
            /\ m_signers' = m_signers \cup {PdfSignerId(ref, Cardinality(SignersOf(ref)))}
            /\ s_call' = "AddSigner"
            /\ s_res' = Return(0)
            /\ UNCHANGED <<s_state, s_sequential, s_pc, m_contexts, s_beacon,
                           s_intermediate, s_processed, s_supplied>>
       ELSE RefuseCall("AddSigner")
    /\ UNCHANGED notSignVars

\* prepareSignatureContexts(doc, sequential): one SignatureCtx for every
\* signer of every registered field, its contents a placeholder.
PrepareSignatureContexts(name, sequential) ==
    /\ s_pc = "idle"
    /\ IF NotStarted
       THEN /\ s_state' = Preparing
            /\ s_sequential' = sequential
            /\ s_pc' = "prepared"
            /\ m_contexts' = m_signers
            /\ s_call' = name
            /\ s_res' = Return(0)
            /\ UNCHANGED <<m_signers, s_beacon, s_intermediate, s_processed, s_supplied>>
       ELSE RefuseCall(name)
    /\ UNCHANGED notSignVars

\* StartSigning(doc, device), up to the prepared contexts.
StartSigning == PrepareSignatureContexts("StartSigning", TRUE)

\* Sign(doc, device), up to the prepared contexts.
Sign == PrepareSignatureContexts("Sign", FALSE)

\* saveDocForSigning(doc, device): the document is written with a
\* placeholder at every beacon; a failure of the device ends the call with
\* IOError.
SaveDocForSigning(deviceOk) ==
    /\ s_pc = "prepared"
    /\ IF deviceOk
       THEN /\ s_state' = Saved
            /\ s_pc' = "saved"
            /\ s_beacon' = [id \in SignerIds |->
                              IF id \in m_contexts THEN "placeholder" ELSE "none"]
            /\ UNCHANGED s_res
       ELSE /\ s_pc' = "idle"
            /\ s_res' = Raise(IOError)
            /\ UNCHANGED <<s_state, s_beacon>>
    /\ UNCHANGED <<s_sequential, m_signers, m_contexts, s_call, s_intermediate,
                   s_processed, s_supplied>>
    /\ UNCHANGED notSignVars

\* Mutant: a signer without a processed result is skipped and the rest is
\* finalized.
MissingResultsSkipped(contexts, processedResults) == {}

\* The contexts the processed results leave without a signature.
MissingResults(contexts, processedResults) == contexts \ processedResults

\* computeSignatures(contexts, ..., processedResults, ...): with a result
\* for every context each beacon receives its signature; a context without
\* one makes the call fail, no beacon of such a context is written, and of
\* the others any may have been written by then.
ComputeSignatures(processedResults, written) ==
    IF MissingResults(m_contexts, processedResults) = {}
    THEN /\ s_beacon' = [id \in SignerIds |->
                           IF id \in m_contexts THEN "signature" ELSE s_beacon[id]]
         /\ s_state' = Finalized
         /\ s_res' = Return(0)
    ELSE /\ written \subseteq (m_contexts \cap processedResults)
         /\ s_beacon' = [id \in SignerIds |->
                           IF id \in written THEN "signature" ELSE s_beacon[id]]
         /\ s_state' = s_state
         /\ s_res' = Raise(SigningFailure)

\* appendDataForSigning(contexts, device, intermediateResults, tmpbuff),
\* which ends StartSigning with the intermediate result of every signer, and
\* after which Sign computes the signatures itself.
AppendDataForSigning ==
    /\ s_pc = "saved"
    /\ s_pc' = "idle"
    /\ IF s_sequential
       THEN /\ s_state' = AwaitingExternalSignatures
            /\ s_intermediate' = m_contexts
            /\ UNCHANGED <<s_beacon, s_res>>
       ELSE /\ ComputeSignatures(m_contexts, {})
            /\ UNCHANGED s_intermediate
    /\ UNCHANGED <<s_sequential, m_signers, m_contexts, s_call, s_processed, s_supplied>>
    /\ UNCHANGED notSignVars

\* FinishSigning(processedResults)
FinishSigning(processedResults, written) ==
    /\ s_pc = "idle"
    /\ IF s_state = AwaitingExternalSignatures
       THEN /\ ComputeSignatures(processedResults, written)
            /\ s_call' = "FinishSigning"
            /\ s_processed' = processedResults
            /\ s_supplied' = s_supplied \cup processedResults
            /\ UNCHANGED <<s_sequential, s_pc, m_signers, m_contexts, s_intermediate>>
       ELSE /\ written = {}
            /\ processedResults = {}
            /\ RefuseCall("FinishSigning")
    /\ UNCHANGED notSignVars

\* ------------------------------------------------------------------------
\* PdfSignerId: equality and hash
\* ------------------------------------------------------------------------

\* The shifts of std::hash<PdfSignerId>
HashGenerationShift == 16
HashIndexShift == 24

\* PdfReference: object number and generation number, and its operators
PdfReference(objectNumber, generationNumber) ==
    [ObjectNumber |-> objectNumber, GenerationNumber |-> generationNumber]

ReferenceEquals(lhs, rhs) ==
    lhs.ObjectNumber = rhs.ObjectNumber /\ lhs.GenerationNumber = rhs.GenerationNumber

ReferenceDiffers(lhs, rhs) == ~ReferenceEquals(lhs, rhs)

\* Mutant: two ids of one signature field are equal.
SignerIdEqualsByRef(lhs, rhs) == ReferenceEquals(lhs.ref, rhs.ref)

\* PdfSignerId::operator==
SignerIdEquals(lhs, rhs) == ReferenceEquals(lhs.ref, rhs.ref) /\ lhs.index = rhs.index

\* PdfSignerId::operator!=
SignerIdDiffers(lhs, rhs) == ReferenceDiffers(lhs.ref, rhs.ref) \/ lhs.index # rhs.index

\* a ^ b on unsigned values
RECURSIVE BitXor(_, _)
BitXor(a, b) ==
    IF a = 0
    THEN b
    ELSE IF b = 0
         THEN a
         ELSE (((a % 2) + (b % 2)) % 2) + 2 * BitXor(a \div 2, b \div 2)

\* value << n, on values that stay within the width of the type
ShiftLeft(value, n) == value * 2 ^ n

\* std::hash<PdfSignerId>::operator()
SignerIdHash(id) ==
    BitXor(BitXor(id.ref.ObjectNumber, ShiftLeft(id.ref.GenerationNumber, HashGenerationShift)),
           ShiftLeft(id.index, HashIndexShift))

\* The ids compared: object numbers, generation numbers and signer indices
\* with bits below, at and above the two shifts.
ObjectNumbers == {0, 1, 2 ^ HashGenerationShift, 2 ^ HashIndexShift}
GenerationNumbers == {0, 1, 2 ^ (HashIndexShift - HashGenerationShift)}
SignerIndices == {0, 1}

ComparedIds ==
    {PdfSignerId(PdfReference(o, g), i) :
        o \in ObjectNumbers, g \in GenerationNumbers, i \in SignerIndices}

NoComparison == [done |-> FALSE, eq |-> FALSE, ne |-> FALSE, hashA |-> 0, hashB |-> 0]

IdIdle ==
    /\ id_a = PdfSignerId(PdfReference(0, 0), 0)
    /\ id_b = PdfSignerId(PdfReference(0, 0), 0)
    /\ id_res = NoComparison

IdsChosen ==
    /\ id_a \in ComparedIds
    /\ id_b \in ComparedIds
    /\ id_res = NoComparison

\* The two ids are compared with both operators and hashed.
CompareIds ==
    /\ ~id_res.done
    /\ id_res' = [done |-> TRUE,
                  eq |-> SignerIdEquals(id_a, id_b),
                  ne |-> SignerIdDiffers(id_a, id_b),
                  hashA |-> SignerIdHash(id_a),
                  hashB |-> SignerIdHash(id_b)]
    /\ UNCHANGED <<id_a, id_b>>
    /\ UNCHANGED notIdVars

\* ------------------------------------------------------------------------
\* PdfEncodingMap: values
\* ------------------------------------------------------------------------

ByteMod == 2 ^ ByteBits
Byte == 0 .. ByteMod - 1

\* sizeof(unsigned), in bytes
UnsignedBytes == 4
UnsignedMod == 2 ^ (ByteBits * UnsignedBytes)

\* The number of entries of the table GetToUnicodeTable() returns.
TableSize == ByteMod

CodePoint == 0 .. MaxCodePoint
\* U'\0'
NullCodePoint == 0

NotImplemented == "NotImplemented"
\* The exception utf8::next throws on text that is not UTF-8.
InvalidUtf8 == "InvalidUtf8"

BuiltIn == "PdfBuiltInEncoding"
NullMap == "PdfNullEncodingMap"
TableBacked == "PdfEncodingMapBase"

Simple == "Simple"
CMap == "CMap"

\* PdfCharCode{ code, codeSpaceSize }, and the default constructed one
PdfCharCode(code, codeSpaceSize) == [Code |-> code, CodeSpaceSize |-> codeSpaceSize]
NoCharCode == PdfCharCode(0, 0)

\* PdfCID{ Id, Unit }, and the default constructed one
PdfCID(id, unit) == [Id |-> id, Unit |-> unit]
NoCID == PdfCID(0, NoCharCode)

\* CodePointSpan: a sequence of code points; CodePointSpan(cp) holds cp alone.
CodePointSpan(codePoint) == <<codePoint>>
NoCodePoints == << >>

PdfEncodingLimits(minCodeSize, maxCodeSize, firstChar, lastChar) ==
    [MinCodeSize |-> minCodeSize, MaxCodeSize |-> maxCodeSize,
     FirstChar |-> firstChar, LastChar |-> lastChar]

\* PdfBuiltInEncoding(name): { 1, 1, PdfCharCode(0), PdfCharCode(0xFF) }
BuiltInLimits ==
    PdfEncodingLimits(1, 1, PdfCharCode(0, 1), PdfCharCode(TableSize - 1, 1))

\* The outcome of a lookup: the error it raised (NoError when it returned),
\* the value it returned, its output argument and the text cursor after it,
\* and the m_EncodingTable of the map after it.
LookupRaise(kind, out, it) ==
    [err |-> kind, ok |-> FALSE, out |-> out, it |-> it, table |-> m_EncodingTable]
LookupReturn(ok, out, it) ==
    [err |-> NoError, ok |-> ok, out |-> out, it |-> it, table |-> m_EncodingTable]

\* ------------------------------------------------------------------------
\* PdfCharCodeMap: the table behind a PdfEncodingMapBase
\* ------------------------------------------------------------------------

\* A PdfCharCodeMap holds its single mappings (here in the order its
\* unordered container iterates them), each from a char code to the code
\* points of one character or ligature, and its ranges, each from the char
\* codes srcCodeLo .. srcCodeLo + size - 1 to the code points that start at
\* dstCodeLo.
NoCharMap == [mappings |-> << >>, ranges |-> << >>]

CharMapCodes(charMap) ==
    {charMap.mappings[i].code : i \in 1 .. Len(charMap.mappings)}
      \cup {charMap.ranges[i].srcCodeLo : i \in 1 .. Len(charMap.ranges)}

\* PdfCharCodeMap::GetLimits: the code sizes and the char codes of the
\* content.
CharMapLimits(charMap) ==
    LET codes == CharMapCodes(charMap)
        sizes == {c.CodeSpaceSize : c \in codes}
        least == CHOOSE c \in codes : \A d \in codes : c.Code <= d.Code
        most == CHOOSE c \in codes : \A d \in codes : d.Code <= c.Code
    IN  PdfEncodingLimits(CHOOSE n \in sizes : \A k \in sizes : n <= k,
                          CHOOSE n \in sizes : \A k \in sizes : k <= n,
                          least, most)

\* PdfCharCodeMap::TryGetCodePoints(code, codePoints)
CharMapTryGetCodePoints(charMap, code) ==
    LET found == {i \in 1 .. Len(charMap.mappings) : charMap.mappings[i].code = code}
    IN  IF found = {}
        THEN [ok |-> FALSE, out |-> NoCodePoints]
        ELSE [ok |-> TRUE, out |-> charMap.mappings[CHOOSE i \in found : TRUE].cps]

\* PdfCharCodeMap::TryGetCharCode(codePoints, code)
CharMapTryGetCharCode(charMap, codePoints) ==
    LET found == {i \in 1 .. Len(charMap.mappings) : charMap.mappings[i].cps = codePoints}
    IN  IF found = {}
        THEN [ok |-> FALSE, out |-> NoCharCode]
        ELSE [ok |-> TRUE,
              out |-> charMap.mappings[CHOOSE i \in found : \A j \in found : i <= j].code]

\* PdfCharCodeMap::TryGetNextCharCode(it, end, code): the longest run of
\* code points at the cursor that has a char code.
CharMapTryGetNextCharCode(charMap, text, it) ==
    LET runs == {k \in 1 .. Len(text) - it + 1 :
                    CharMapTryGetCharCode(charMap, SubSeq(text, it, it + k - 1)).ok}
    IN  IF runs = {}
        THEN [ok |-> FALSE, out |-> NoCharCode, it |-> it]
        ELSE LET k == CHOOSE n \in runs : \A m \in runs : m <= n
             IN  [ok |-> TRUE,
                  out |-> CharMapTryGetCharCode(charMap, SubSeq(text, it, it + k - 1)).out,
                  it |-> it + k]

\* ------------------------------------------------------------------------
\* PdfEncodingMap: the virtual functions of the three classes
\* ------------------------------------------------------------------------

\* Mutant: a code point keeps the first code the table has for it.
EncodingTableKeepFirst(table, codePoint, code) ==
    [cp \in DOMAIN table \cup {codePoint} |->
        IF cp \in DOMAIN table THEN table[cp] ELSE code]

\* m_EncodingTable[codePoint] = code
EncodingTableAssign(table, codePoint, code) ==
    [cp \in DOMAIN table \cup {codePoint} |->
        IF cp = codePoint THEN code ELSE table[cp]]

RECURSIVE FillEncodingTable(_, _, _)
FillEncodingTable(table, forward, i) ==
    IF i >= TableSize
    THEN table
    ELSE FillEncodingTable(EncodingTableAssign(table, forward[i], i % ByteMod),
                           forward, i + 1)

\* The empty m_EncodingTable of a map that has not built it.
NoEncodingTable == [cp \in {} |-> 0]

\* PdfBuiltInEncoding::initEncodingTable()
initEncodingTable(table, forward) ==
    IF DOMAIN table # {} THEN table ELSE FillEncodingTable(table, forward, 0)

\* Mutant: the null map returns its default constructed limits.
GetLimitsReturns == FALSE

\* GetLimits(): the null map raises instead.
GetLimitsRaises == e_kind = NullMap
GetLimits == IF e_kind = TableBacked THEN CharMapLimits(m_charMap) ELSE m_Limits

\* HasLigaturesSupport()
HasLigaturesSupport == e_ligatures

\* tryGetCharCode(codePoint, codeUnit); the outcome also holds the
\* m_EncodingTable the call leaves.
tryGetCharCode(codePoint, codeUnit) ==
    CASE e_kind = BuiltIn ->
           LET built == initEncodingTable(m_EncodingTable, cpUnicodeTable)
           IN  IF codePoint \notin DOMAIN built
               THEN [LookupReturn(FALSE, NoCharCode, 0) EXCEPT !.table = built]
               ELSE [LookupReturn(TRUE, PdfCharCode(built[codePoint] % ByteMod, 1), 0)
                       EXCEPT !.table = built]
      [] e_kind = NullMap -> LookupRaise(InternalLogic, codeUnit, 0)
      [] e_kind = TableBacked ->
           LET r == CharMapTryGetCharCode(m_charMap, <<codePoint>>)
           IN  LookupReturn(r.ok, r.out, 0)

\* tryGetCodePoints(codeUnit, cidId, codePoints)
tryGetCodePoints(codeUnit, codePoints) ==
    CASE e_kind = BuiltIn ->
           IF codeUnit.Code >= TableSize
           THEN LookupReturn(FALSE, codePoints, 0)
           ELSE LookupReturn(TRUE, CodePointSpan(cpUnicodeTable[codeUnit.Code]), 0)
      [] e_kind = NullMap -> LookupRaise(InternalLogic, codePoints, 0)
      [] e_kind = TableBacked ->
           LET r == CharMapTryGetCodePoints(m_charMap, codeUnit)
           IN  LookupReturn(r.ok, r.out, 0)

\* tryGetCharCodeSpan(ligature, codeUnit)
tryGetCharCodeSpan(ligature, codeUnit) ==
    IF e_kind = TableBacked
    THEN LET r == CharMapTryGetCharCode(m_charMap, ligature)
         IN  LookupReturn(r.ok, r.out, 0)
    ELSE LookupRaise(NotImplemented, codeUnit, 0)

\* tryGetNextCharCode(it, end, codeUnit)
tryGetNextCharCode(text, it, codeUnit) ==
    IF e_kind = TableBacked
    THEN LET r == CharMapTryGetNextCharCode(m_charMap, text, it)
         IN  LookupReturn(r.ok, r.out, r.it)
    ELSE LookupRaise(NotImplemented, codeUnit, it)

\* ------------------------------------------------------------------------
\* PdfEncodingMap: the lookups
\* ------------------------------------------------------------------------

\* A text is a sequence of units. For TryGetNextCharCode a unit is one
\* UTF-8 encoded code point, or, above MaxCodePoint, bytes that are not
\* UTF-8; for the decoders of char codes a unit is one byte.
EndOf(text) == Len(text) + 1

\* utf8::next(it, end): the code point at the cursor; on bytes that are
\* not UTF-8 it throws and leaves the cursor.
Utf8Malformed(text, it) == text[it] > MaxCodePoint

\* Mutant: the byte is or-ed in before the shift.
ShiftInBeforeShift(code, byte) == ((code + byte) * ByteMod) % UnsignedMod

\* code <<= 8; code |= (unsigned char)*curr;   on an unsigned
ShiftIn(code, byte) == ((code * ByteMod) % UnsignedMod) + byte

\* TryGetNextCharCode(it, end, code)
TryGetNextCharCode(text, it, code) ==
    IF it = EndOf(text)
    THEN LookupReturn(FALSE, NoCharCode, it)
    ELSE IF HasLigaturesSupport
         THEN LET r == tryGetNextCharCode(text, it, code)
              IN  IF r.err # NoError
                  THEN [r EXCEPT !.it = it]
                  ELSE IF ~r.ok
                       THEN LookupReturn(FALSE, NoCharCode, it)
                       ELSE LookupReturn(TRUE, r.out, r.it)
         ELSE IF Utf8Malformed(text, it)
              THEN LookupRaise(InvalidUtf8, code, it)
              ELSE [tryGetCharCode(text[it], code) EXCEPT !.it = it + 1]

\* TryGetCharCode(char32_t codePoint, codeUnit)
TryGetCharCode(codePoint, codeUnit) == tryGetCharCode(codePoint, codeUnit)

\* Mutant: only the empty span is refused before the ligature lookup.
TryGetCharCodeOfSpanUnguarded(codePoints, codeUnit) ==
    IF Len(codePoints) = 1
    THEN tryGetCharCode(codePoints[1], codeUnit)
    ELSE IF Len(codePoints) = 0
         THEN LookupReturn(FALSE, NoCharCode, 0)
         ELSE tryGetCharCodeSpan(codePoints, codeUnit)

\* TryGetCharCode(const unicodeview& codePoints, codeUnit)
TryGetCharCodeOfSpan(codePoints, codeUnit) ==
    IF Len(codePoints) = 1
    THEN tryGetCharCode(codePoints[1], codeUnit)
    ELSE IF Len(codePoints) = 0 \/ ~HasLigaturesSupport
         THEN LookupReturn(FALSE, NoCharCode, 0)
         ELSE tryGetCharCodeSpan(codePoints, codeUnit)

\* tryGetNextCodePoints(it, end, codeUnit, codePoints), from its loop on:
\* curr is the cursor of the loop and i the size of the code read so far
\* plus one. The output holds codeUnit and codePoints.
RECURSIVE NextCodePointsLoop(_, _, _, _, _, _, _)
NextCodePointsLoop(text, it, curr, code, i, codeUnit, codePoints) ==
    IF curr = EndOf(text) \/ i > GetLimits.MaxCodeSize
    THEN LookupReturn(FALSE, [codeUnit |-> codeUnit, codePoints |-> codePoints], it)
    ELSE LET shifted == ShiftIn(code, text[curr])
             unit == PdfCharCode(shifted, i)
         IN  IF i < GetLimits.MinCodeSize
             THEN NextCodePointsLoop(text, it, curr + 1, shifted, i + 1, unit, codePoints)
             ELSE LET r == tryGetCodePoints(unit, codePoints)
                  IN  IF r.err # NoError
                      THEN LookupRaise(r.err, [codeUnit |-> unit, codePoints |-> r.out], it)
                      ELSE IF ~r.ok
                           THEN NextCodePointsLoop(text, it, curr + 1, shifted, i + 1,
                                                   unit, r.out)
                           ELSE LookupReturn(TRUE, [codeUnit |-> unit, codePoints |-> r.out],
                                             curr + 1)

\* Mutant: the code starts the loop with a bit set.
tryGetNextCodePointsStaleCode(text, it, codeUnit, codePoints) ==
    IF GetLimitsRaises
    THEN LookupRaise(InternalLogic, [codeUnit |-> codeUnit, codePoints |-> codePoints], it)
    ELSE NextCodePointsLoop(text, it, it, 1, 1, codeUnit, codePoints)

\* tryGetNextCodePoints(it, end, codeUnit, codePoints)
tryGetNextCodePoints(text, it, codeUnit, codePoints) ==
    IF GetLimitsRaises
    THEN LookupRaise(InternalLogic, [codeUnit |-> codeUnit, codePoints |-> codePoints], it)
    ELSE NextCodePointsLoop(text, it, it, 0, 1, codeUnit, codePoints)

\* The branch of TryGetNextCID for a map that is not a CMap, from its loop
\* on.
RECURSIVE NextCIDLoop(_, _, _, _, _, _)
NextCIDLoop(text, it, curr, code, i, maxCodeSize) ==
    IF curr = EndOf(text)
    THEN LookupReturn(FALSE, NoCID, it)
    ELSE LET shifted == ShiftIn(code, text[curr])
         IN  IF i = maxCodeSize
             THEN LookupReturn(TRUE, PdfCID(shifted, PdfCharCode(shifted, maxCodeSize)),
                               curr + 1)
             ELSE NextCIDLoop(text, it, curr + 1, shifted, i + 1, maxCodeSize)

\* TryGetNextCID(it, end, cid)
TryGetNextCID(text, it, cid) ==
    IF m_Type = CMap
    THEN LET r == tryGetNextCodePoints(text, it, cid.Unit, NoCodePoints)
         IN  IF r.err # NoError
             THEN LookupRaise(r.err, [cid EXCEPT !.Unit = r.out.codeUnit], r.it)
             ELSE IF ~r.ok \/ Len(r.out.codePoints) # 1
                  THEN LookupReturn(FALSE, NoCID, r.it)
                  ELSE LookupReturn(TRUE, PdfCID(r.out.codePoints[1], r.out.codeUnit), r.it)
    ELSE IF GetLimitsRaises
         THEN LookupRaise(InternalLogic, cid, it)
         ELSE NextCIDLoop(text, it, it, 0, 1, GetLimits.MaxCodeSize)

\* TryGetNextCodePoints(it, end, codePoints)
TryGetNextCodePoints(text, it, codePoints) ==
    LET r == tryGetNextCodePoints(text, it, NoCharCode, codePoints)
    IN  [r EXCEPT !.out = r.out.codePoints]

\* TryGetCIDId(codeUnit, cid)
TryGetCIDId(codeUnit, cid) ==
    LET r == tryGetCodePoints(codeUnit, NoCodePoints)
    IN  IF r.err # NoError
        THEN LookupRaise(r.err, cid, 0)
        ELSE IF ~r.ok \/ Len(r.out) # 1
             THEN LookupReturn(FALSE, cid, 0)
             ELSE LookupReturn(TRUE, r.out[1], 0)

\* TryGetCodePoints(codeUnit, codePoints)
TryGetCodePoints(codeUnit, codePoints) == tryGetCodePoints(codeUnit, codePoints)

\* ------------------------------------------------------------------------
\* PdfEncodingMap: one map and the calls on it
\* ------------------------------------------------------------------------

NoLimits == PdfEncodingLimits(0, 0, NoCharCode, NoCharCode)
NoTable == [i \in 0 .. TableSize - 1 |-> NullCodePoint]
NoLookup == [op |-> "none", text |-> << >>, arg |-> 0, out0 |-> 0]
NoOutcome == [err |-> NoError, ok |-> FALSE, out |-> 0, it |-> 0, table |-> NoEncodingTable]

EncIdle ==
    /\ e_kind = "none"
    /\ m_Type = Simple
    /\ e_ligatures = FALSE
    /\ m_Limits = NoLimits
    /\ cpUnicodeTable = NoTable
    /\ m_EncodingTable = NoEncodingTable
    /\ m_charMap = NoCharMap
    /\ e_call = NoLookup
    /\ e_res = NoOutcome
    /\ e_stream = ""

\* The char codes the mappings of a PdfCharCodeMap are taken from: one of
\* each size, and a second of one byte.
MappedCharCodes ==
    {PdfCharCode(ByteMod ^ (n - 1) - 1, n) : n \in 1 .. MaxCodeBytes}
      \cup {PdfCharCode(1, 1)}

\* The char codes handed to a lookup: those, and one outside every table.
LookupCharCodes == MappedCharCodes \cup {PdfCharCode(TableSize, 2)}

\* The code points of a mapping: one character or one ligature.
MappedCodePoints == {<<1>>, <<1, 2>>}

Mapping(code, cps) == [code |-> code, cps |-> cps]

\* The single mappings of a PdfCharCodeMap: at least one, no char code
\* twice.
MappingLists ==
    {m \in UNION {[1 .. n -> {Mapping(c, u) : c \in MappedCharCodes, u \in MappedCodePoints}] :
                    n \in 1 .. MaxMappings} :
        \A i, j \in 1 .. Len(m) : i # j => m[i].code # m[j].code}

\* The same with the mappings in one order: a lookup does not depend on
\* the order the mappings were inserted in.
MappingSets ==
    {m \in MappingLists :
        \A i, j \in 1 .. Len(m) :
            i < j => \/ m[i].code.Code < m[j].code.Code
                     \/ /\ m[i].code.Code = m[j].code.Code
                        /\ m[i].code.CodeSpaceSize < m[j].code.CodeSpaceSize}

\* The constructors: a PdfBuiltInEncoding over any forward table, the
\* PdfNullEncodingMap, and a PdfEncodingMapBase of either type over any
\* char code map, with or without the ligature lookup of a subclass.
EncConstructed ==
    /\ e_kind \in {BuiltIn, NullMap, TableBacked}
    /\ m_Type \in {Simple, CMap}
    /\ e_ligatures \in BOOLEAN
    /\ cpUnicodeTable \in [0 .. TableSize - 1 -> CodePoint]
    /\ m_charMap \in {[mappings |-> m, ranges |-> << >>] : m \in MappingSets} \cup {NoCharMap}
    /\ CASE e_kind = BuiltIn ->
              /\ m_Type = Simple /\ ~e_ligatures /\ m_Limits = BuiltInLimits
              /\ m_charMap = NoCharMap
         [] e_kind = NullMap ->
              /\ m_Type = CMap /\ ~e_ligatures /\ m_Limits = NoLimits
              /\ m_charMap = NoCharMap /\ cpUnicodeTable = NoTable
         [] e_kind = TableBacked ->
              /\ m_Limits = NoLimits /\ cpUnicodeTable = NoTable
              /\ m_charMap # NoCharMap
    /\ m_EncodingTable = NoEncodingTable
    /\ e_call = NoLookup
    /\ e_res = NoOutcome
    /\ e_stream = ""

\* The inputs of the calls.
\* A text of code points and a span are as long as the longest ligature of
\* a mapping; the bytes of a text are the least two and the greatest.
LongestMapped ==
    CHOOSE n \in {Len(u) : u \in MappedCodePoints} : \A u \in MappedCodePoints : Len(u) <= n

Utf8Texts == UNION {[1 .. n -> 0 .. MaxCodePoint + 1] : n \in 0 .. LongestMapped}
ByteTexts == UNION {[1 .. n -> {0, 1, ByteMod - 1}] : n \in 0 .. MaxTextLen}
CodePointSpans == UNION {[1 .. n -> CodePoint] : n \in 0 .. LongestMapped}

\* What the output argument of the caller holds before a call: a default
\* constructed value or the result of an earlier lookup.
CallerCharCodes == {NoCharCode, PdfCharCode(1, 1)}
CallerCIDs == {NoCID, PdfCID(1, PdfCharCode(1, 1))}
CallerCodePoints == {NoCodePoints, CodePointSpan(1)}
CallerCIDIds == {0, 1}

\* A call of a lookup on the map: the call and its outcome are recorded,
\* and a PdfBuiltInEncoding keeps the table the call built.
Lookup(op, text, arg, out0, outcome) ==
    /\ e_kind # "none"
    /\ e_call.op = "none"
    /\ e_call' = [op |-> op, text |-> text, arg |-> arg, out0 |-> out0]
    /\ e_res' = outcome
    /\ m_EncodingTable' = outcome.table
    /\ UNCHANGED <<e_kind, m_Type, e_ligatures, m_Limits, cpUnicodeTable, m_charMap, e_stream>>
    /\ UNCHANGED notEncVars

CallTryGetNextCharCode(text, code) ==
    Lookup("TryGetNextCharCode", text, 0, code, TryGetNextCharCode(text, 1, code))

CallTryGetCharCode(codePoint, codeUnit) ==
    Lookup("TryGetCharCode", << >>, codePoint, codeUnit, TryGetCharCode(codePoint, codeUnit))

CallTryGetCharCodeOfSpan(codePoints, codeUnit) ==
    Lookup("TryGetCharCodeOfSpan", << >>, codePoints, codeUnit,
           TryGetCharCodeOfSpan(codePoints, codeUnit))

CallTryGetNextCID(text, cid) ==
    Lookup("TryGetNextCID", text, 0, cid, TryGetNextCID(text, 1, cid))

CallTryGetNextCodePoints(text, codePoints) ==
    Lookup("TryGetNextCodePoints", text, 0, codePoints,
           TryGetNextCodePoints(text, 1, codePoints))

CallTryGetCIDId(codeUnit, cid) ==
    Lookup("TryGetCIDId", << >>, codeUnit, cid, TryGetCIDId(codeUnit, cid))

CallTryGetCodePoints(codeUnit, codePoints) ==
    Lookup("TryGetCodePoints", << >>, codeUnit, codePoints,
           TryGetCodePoints(codeUnit, codePoints))

\* The caller is done with the outcome of the last call.
Discard ==
    /\ e_call.op # "none"
    /\ e_call' = NoLookup
    /\ e_res' = NoOutcome
    /\ e_stream' = ""
    /\ UNCHANGED <<e_kind, m_Type, e_ligatures, m_Limits, cpUnicodeTable, m_EncodingTable,
                   m_charMap>>
    /\ UNCHANGED notEncVars

\* ------------------------------------------------------------------------
\* PdfEncodingMap: the serializers
\* ------------------------------------------------------------------------

HexDigit == <<"0", "1", "2", "3", "4", "5", "6", "7", "8", "9",
              "A", "B", "C", "D", "E", "F">>

\* utls::WriteCharHexTo(hexbuf, ch): the two hex digits of a byte
WriteCharHexTo(byte) == HexDigit[(byte \div 16) + 1] \o HexDigit[(byte % 16) + 1]

\* utls::FormatTo(temp, n): the decimal digits of n
RECURSIVE FormatTo(_)
FormatTo(n) ==
    IF n < 10 THEN HexDigit[n + 1] ELSE FormatTo(n \div 10) \o HexDigit[(n % 10) + 1]

\* The bytes of a value of n bytes, the most significant first.
RECURSIVE BytesOf(_, _)
BytesOf(value, n) ==
    IF n = 0 THEN << >> ELSE Append(BytesOf(value \div ByteMod, n - 1), value % ByteMod)

RECURSIVE HexOfBytes(_)
HexOfBytes(bytes) ==
    IF bytes = << >> THEN "" ELSE WriteCharHexTo(Head(bytes)) \o HexOfBytes(Tail(bytes))

\* PdfCharCode::WriteHexTo(temp): a hex token of the width of the code
WriteHexTo(code) == "<" \o HexOfBytes(BytesOf(code.Code, code.CodeSpaceSize)) \o ">"

\* utls::WriteUtf16BETo(u16tmp, cp), as bytes: one code unit of two bytes
\* (the code points of the model are below the surrogates).
WriteUtf16BETo(codePoint) == BytesOf(codePoint, 2)

\* AppendUTF16CodeTo(stream, codePoints, u16tmp): what it writes
RECURSIVE Utf16Digits(_, _)
Utf16Digits(codePoints, first) ==
    IF codePoints = << >>
    THEN ""
    ELSE (IF first THEN "" ELSE " ")
           \o HexOfBytes(WriteUtf16BETo(Head(codePoints)))
           \o Utf16Digits(Tail(codePoints), FALSE)

AppendUTF16CodeTo(codePoints) == "<" \o Utf16Digits(codePoints, TRUE) \o ">"

\* writeCIDMapping(stream, unit, cid, temp)
writeCIDMapping(unit, cid) == WriteHexTo(unit) \o " " \o FormatTo(cid) \o "\n"

\* writeCIDRange(stream, srcCodeLo, srcCodeHi, dstCidLo, temp)
writeCIDRange(srcCodeLo, srcCodeHi, dstCidLo) ==
    WriteHexTo(srcCodeLo) \o WriteHexTo(srcCodeHi) \o " " \o FormatTo(dstCidLo) \o "\n"

\* PdfCharCode::operator<
CharCodeLess(a, b) ==
    \/ a.Code < b.Code
    \/ a.Code = b.Code /\ a.CodeSpaceSize < b.CodeSpaceSize

\* The elements of a std::set<PdfCharCode> in the order it iterates them.
RECURSIVE Ascending(_)
Ascending(codes) ==
    IF codes = {}
    THEN << >>
    ELSE LET least == CHOOSE c \in codes : \A d \in codes \ {c} : CharCodeLess(c, d)
         IN  <<least>> \o Ascending(codes \ {least})

\* Mutant: the keys are taken in the order the container iterates them.
ContainerOrderKeys(mappings) == [i \in 1 .. Len(mappings) |-> mappings[i].code]

\* set<PdfCharCode> ordered, filled with the keys of the mappings
OrderedKeys(mappings) == Ascending({mappings[i].code : i \in 1 .. Len(mappings)})

\* mappings.at(code)
MappingAt(mappings, code) ==
    mappings[CHOOSE i \in 1 .. Len(mappings) : mappings[i].code = code].cps

\* A range of a PdfCharCodeMap, its GetSrcCodeHi(), and GetRanges(): the
\* ranges in ascending order of their first char code.
CodeRange(srcCodeLo, size, dstCodeLo) ==
    [srcCodeLo |-> srcCodeLo, size |-> size, dstCodeLo |-> dstCodeLo]

GetSrcCodeHi(range) ==
    PdfCharCode(range.srcCodeLo.Code + range.size - 1, range.srcCodeLo.CodeSpaceSize)

GetRanges(charMap) ==
    LET keys == Ascending({charMap.ranges[i].srcCodeLo : i \in 1 .. Len(charMap.ranges)})
    IN  [k \in 1 .. Len(keys) |->
            charMap.ranges[CHOOSE i \in 1 .. Len(charMap.ranges) :
                              charMap.ranges[i].srcCodeLo = keys[k]]]

\* The lines a serializer writes for the elements of a sequence.
RECURSIVE Written(_)
Written(strings) ==
    IF strings = << >> THEN "" ELSE Head(strings) \o Written(Tail(strings))

Lines(items, line(_)) == Written([k \in 1 .. Len(items) |-> line(items[k])])

\* PdfEncodingMapBase::AppendCIDMappingEntries(stream, font, temp): what it
\* writes
BaseCIDMappingEntries(charMap) ==
    LET mappings == charMap.mappings
        ranges == GetRanges(charMap)
        CharLine(code) == writeCIDMapping(code, MappingAt(mappings, code)[1])
        RangeLine(range) ==
            writeCIDRange(range.srcCodeLo, GetSrcCodeHi(range), range.dstCodeLo[1])
    IN  (IF Len(mappings) # 0
         THEN FormatTo(Len(mappings)) \o " begincidchar\n"
                \o Lines(OrderedKeys(mappings), CharLine) \o "endcidchar\n"
         ELSE "")
        \o (IF Len(ranges) # 0
            THEN FormatTo(Len(ranges)) \o " begincidrange\n"
                   \o Lines(ranges, RangeLine) \o "endcidrange\n"
            ELSE "")

\* PdfEncodingMapBase::AppendToUnicodeEntries(stream, temp): what it writes
BaseToUnicodeEntries(charMap) ==
    LET mappings == charMap.mappings
        ranges == GetRanges(charMap)
        CharLine(code) ==
            WriteHexTo(code) \o " " \o AppendUTF16CodeTo(MappingAt(mappings, code)) \o "\n"
        RangeLine(range) ==
            WriteHexTo(range.srcCodeLo) \o WriteHexTo(GetSrcCodeHi(range)) \o " "
              \o AppendUTF16CodeTo(range.dstCodeLo) \o "\n"
    IN  (IF Len(mappings) # 0
         THEN FormatTo(Len(mappings)) \o " beginbfchar\n"
                \o Lines(OrderedKeys(mappings), CharLine) \o "endbfchar\n"
         ELSE "")
        \o (IF Len(ranges) # 0
            THEN FormatTo(Len(ranges)) \o " beginbfrange\n"
                   \o Lines(ranges, RangeLine) \o "endbfrange\n"
            ELSE "")

\* PdfEncodingMapOneByte::AppendToUnicodeEntries(stream, temp): the lines
\* of the codes from code to lastCode, and all it writes
RECURSIVE OneByteLiterals(_, _)
OneByteLiterals(code, lastCode) ==
    IF code > lastCode
    THEN ""
    ELSE LET r == TryGetCodePoints(PdfCharCode(code, 1), NoCodePoints)
         IN  (IF ~r.ok THEN "" ELSE AppendUTF16CodeTo(r.out) \o "\n")
               \o OneByteLiterals(code + 1, lastCode)

OneByteToUnicodeEntries ==
    "1 beginbfrange\n"
      \o WriteHexTo(GetLimits.FirstChar) \o " " \o WriteHexTo(GetLimits.LastChar) \o " [\n"
      \o OneByteLiterals(GetLimits.FirstChar.Code, GetLimits.LastChar.Code)
      \o "]\n" \o "endbfrange\n"

\* The outcome of a serializer: the error it raised and what it wrote to
\* the stream before it returned or raised.
Wrote(kind, stream) == [err |-> kind, stream |-> stream]

\* AppendToUnicodeEntries(stream, temp)
AppendToUnicodeEntries ==
    CASE e_kind = NullMap -> Wrote(InternalLogic, "")
      [] e_kind = TableBacked -> Wrote(NoError, BaseToUnicodeEntries(m_charMap))
      [] e_kind = BuiltIn -> Wrote(NoError, OneByteToUnicodeEntries)

\* AppendCIDMappingEntries(stream, font, temp) of the classes that need no
\* font for it
AppendCIDMappingEntries ==
    IF e_kind = NullMap
    THEN Wrote(InternalLogic, "")
    ELSE Wrote(NoError, BaseCIDMappingEntries(m_charMap))

\* PdfEncodingMap::AppendCodeSpaceRange(stream, temp)
AppendCodeSpaceRange ==
    IF GetLimitsRaises
    THEN Wrote(InternalLogic, "1 begincodespacerange\n")
    ELSE Wrote(NoError, "1 begincodespacerange\n"
                          \o WriteHexTo(GetLimits.FirstChar) \o WriteHexTo(GetLimits.LastChar)
                          \o "\nendcodespacerange\n")

\* A call of a serializer, or of GetLimits, on the map.
Serialize(op, outcome, result) ==
    /\ e_kind # "none"
    /\ e_call.op = "none"
    /\ e_call' = [op |-> op, text |-> << >>, arg |-> 0, out0 |-> 0]
    /\ e_res' = [err |-> outcome.err, ok |-> outcome.err = NoError, out |-> result, it |-> 0,
                 table |-> m_EncodingTable]
    /\ e_stream' = outcome.stream
    /\ UNCHANGED <<e_kind, m_Type, e_ligatures, m_Limits, cpUnicodeTable, m_EncodingTable,
                   m_charMap>>
    /\ UNCHANGED notEncVars

CallAppendToUnicodeEntries ==
    Serialize("AppendToUnicodeEntries", AppendToUnicodeEntries, 0)

CallAppendCIDMappingEntries ==
    /\ e_kind # BuiltIn
    /\ Serialize("AppendCIDMappingEntries", AppendCIDMappingEntries, 0)

CallAppendCodeSpaceRange ==
    /\ e_kind # TableBacked
    /\ Serialize("AppendCodeSpaceRange", AppendCodeSpaceRange, 0)

CallGetLimits ==
    IF GetLimitsRaises
    THEN Serialize("GetLimits", Wrote(InternalLogic, ""), 0)
    ELSE Serialize("GetLimits", Wrote(NoError, ""), GetLimits)

\* The first char codes of the ranges of a PdfCharCodeMap, and its ranges:
\* no first char code twice.
RangeStarts == {PdfCharCode(ByteMod ^ (n - 1) - 1, n) : n \in 1 .. MaxCodeBytes}

RangeLists ==
    {r \in UNION {[1 .. n -> {CodeRange(c, 2, <<1>>) : c \in RangeStarts}] :
                    n \in 0 .. MaxMappings} :
        \A i, j \in 1 .. Len(r) : i # j => r[i].srcCodeLo # r[j].srcCodeLo}

\* The maps handed to the serializers: as for the lookups, the
\* PdfCharCodeMap now with any ranges, and with mappings or ranges.
CMapConstructed ==
    /\ e_kind \in {BuiltIn, NullMap, TableBacked}
    /\ e_ligatures = FALSE
    /\ cpUnicodeTable \in [0 .. TableSize - 1 -> CodePoint]
    /\ m_charMap \in {[mappings |-> m, ranges |-> r] :
                         m \in MappingLists \cup {<< >>}, r \in RangeLists}
    /\ CASE e_kind = BuiltIn ->
              /\ m_Type = Simple /\ m_Limits = BuiltInLimits /\ m_charMap = NoCharMap
         [] e_kind = NullMap ->
              /\ m_Type = CMap /\ m_Limits = NoLimits
              /\ m_charMap = NoCharMap /\ cpUnicodeTable = NoTable
         [] e_kind = TableBacked ->
              /\ m_Type = CMap /\ m_Limits = NoLimits /\ cpUnicodeTable = NoTable
              /\ m_charMap # NoCharMap
    /\ m_EncodingTable = NoEncodingTable
    /\ e_call = NoLookup
    /\ e_res = NoOutcome
    /\ e_stream = ""


\* ------------------------------------------------------------------------
\* Specifications
\* ------------------------------------------------------------------------

\* ------------------------------------------------------------------------
\* StandardStreamDevice: writes and reads
\* ------------------------------------------------------------------------

\* The host stream as one value, handed from one step of a call to the next.
HostStream ==
    [len |-> h_len, gpos |-> h_gpos, ppos |-> h_ppos, eof |-> h_eof,
     fail |-> h_fail, bounded |-> h_bounded, wrote |-> h_wrote]

HostBecomes(stream) ==
    /\ h_len' = stream.len
    /\ h_gpos' = stream.gpos
    /\ h_ppos' = stream.ppos
    /\ h_eof' = stream.eof
    /\ h_fail' = stream.fail
    /\ h_bounded' = stream.bounded
    /\ h_wrote' = stream.wrote

\* (ssize_t)x : conversion to the signed word.
ToSSize(x) == IF ToSize(x) > SSizeMax THEN ToSize(x) - SizeMod ELSE ToSize(x)

\* getPosition(*m_istream): the read indicator; the eof flag is taken away
\* for the tell and put back after it. A tell on a stream whose fail flag
\* is set answers -1, which the conversion to size_t wraps.
getPosition(stream) == IF stream.fail THEN ToSize(-1) ELSE stream.gpos

\* m_Stream->clear(m_Stream->rdstate() & ~ios_base::eofbit)
ClearEof(stream) == [stream EXCEPT !.eof = FALSE]

\* ::seek(*m_ostream, pos, SeekDirection::Begin): a stream whose fail flag
\* is set ignores it, and a refused position sets the flag.
SeekOutput(stream, pos) ==
    IF stream.fail THEN stream
    ELSE IF HostSeekFails(pos, stream.len, stream.bounded)
         THEN [stream EXCEPT !.fail = TRUE]
         ELSE [stream EXCEPT !.ppos = pos]

\* ::seek(*m_istream, pos, SeekDirection::Begin)
SeekInput(stream, pos) ==
    IF stream.fail THEN stream
    ELSE IF HostSeekFails(pos, stream.len, stream.bounded)
         THEN [stream EXCEPT !.fail = TRUE]
         ELSE [stream EXCEPT !.gpos = pos]

\* m_ostream->write(buffer, size): a stream whose fail flag is set writes
\* nothing; the host takes the bytes at the write indicator or refuses
\* them (accepted), and it refuses bytes past the largest offset.
HostWrite(stream, size, accepted) ==
    IF stream.fail THEN stream
    ELSE IF ~accepted \/ stream.ppos + size > MaxObjectSize
         THEN [stream EXCEPT !.fail = TRUE]
         ELSE [stream EXCEPT
                 !.wrote = [done |-> TRUE, at |-> stream.ppos, size |-> size],
                 !.len = IF stream.ppos + size > @ THEN stream.ppos + size ELSE @,
                 !.ppos = @ + size]

\* utls::ReadBuffer(*m_istream, buffer, size, eof): the bytes between the
\* read indicator and the end of the content, at most size of them; the
\* eof flag is set when the content ends before size bytes were read.
HostRead(stream, size) ==
    IF stream.fail THEN [stream |-> stream, read |-> 0]
    ELSE LET left == IF stream.len > stream.gpos
                     THEN stream.len - stream.gpos ELSE 0
             read == Min(size, left)
         IN  [stream |-> [stream EXCEPT !.gpos = @ + read, !.eof = read < size],
              read |-> read]

\* case DeviceAccess::Write of writeBuffer
WriteOnly(stream, size, accepted) ==
    LET written == HostWrite(stream, size, accepted)
    IN  [stream |-> written,
         res |-> IF written.fail THEN Raise(IOError) ELSE Return(0)]

\* Mutant: the write indicator is not moved to the read-side position
\* before the write.
WriteSynchronizedUnplaced(stream, size, accepted) ==
    LET pos == getPosition(stream)
        cleared == ClearEof(stream)
        written == HostWrite(cleared, size, accepted)
        synced == SeekInput(written, ToSSize(pos + size))
    IN  IF written.fail THEN [stream |-> written, res |-> Raise(IOError)]
        ELSE [stream |-> synced,
              res |-> IF synced.fail THEN Raise(IOError) ELSE Return(0)]

\* case DeviceAccess::ReadWrite of writeBuffer: the read-side position, the
\* eof flag cleared, the write indicator moved there, the write, and the
\* read indicator moved past the bytes written; the flag of a failed seek
\* of the write indicator is seen by the test after the write.
WriteSynchronized(stream, size, accepted) ==
    LET pos == getPosition(stream)
        cleared == ClearEof(stream)
        placed == SeekOutput(cleared, ToSSize(pos))
        written == HostWrite(placed, size, accepted)
        synced == SeekInput(written, ToSSize(pos + size))
    IN  IF written.fail THEN [stream |-> written, res |-> Raise(IOError)]
        ELSE [stream |-> synced,
              res |-> IF synced.fail THEN Raise(IOError) ELSE Return(0)]

StandardWriteBuffer(size, accepted) ==
    /\ dev_kind = Standard
    /\ LET r == CASE dev_access = Write -> WriteOnly(HostStream, size, accepted)
                  [] dev_access = ReadWrite ->
                         WriteSynchronized(HostStream, size, accepted)
                  [] OTHER -> [stream |-> HostStream, res |-> Raise(InternalLogic)]
       IN  /\ HostBecomes(r.stream)
           /\ res' = r.res
    /\ call' = SizeCall("write", size)
    /\ CountCall
    /\ UNCHANGED <<dev_kind, dev_access, memVars, res_eof>>
    /\ UNCHANGED bufVars
    /\ UNCHANGED notDevVars

\* readBuffer of a device that can read: nothing is read from a stream at
\* eof.
StandardReadBuffer(size) ==
    /\ dev_kind = Standard
    /\ UsesInputSide
    /\ IF h_eof
       THEN /\ res_eof' = TRUE
            /\ res' = Return(0)
            /\ UNCHANGED hostVars
       ELSE LET r == HostRead(HostStream, size)
            IN  /\ HostBecomes(r.stream)
                /\ res_eof' = r.stream.eof
                /\ res' = Return(r.read)
    /\ call' = SizeCall("read", size)
    /\ CountCall
    /\ UNCHANGED <<dev_kind, dev_access, memVars>>
    /\ UNCHANGED bufVars
    /\ UNCHANGED notDevVars

\* Spec: one stream device of any of the four variants

Init == SeekIdle /\ DevConstructed /\ FileIdle /\ SignStart /\ IdIdle /\ EncIdle

Next ==
    \/ \E size \in 0 .. MaxObjectSize : NullWriteBuffer(size)
    \/ \E size \in 0 .. MaxObjectSize : NullReadBuffer(size)
    \/ \E offset \in SSizeT, direction \in SeekDirection : NullSeek(offset, direction)
    \/ \E size \in 0 .. MaxObjectSize : SpanWriteBuffer(Zeros(size))
    \/ \E size \in 0 .. MaxObjectSize : SpanReadBuffer(size)
    \/ \E offset \in SSizeT, direction \in SeekDirection : SpanSeek(offset, direction)
    \/ \E offset \in SSizeT, direction \in SeekDirection : FileSeek(offset, direction)
    \/ \E offset \in SSizeT, direction \in SeekDirection : StandardSeek(offset, direction)

Spec == Init /\ [][Next]_vars

\* SpecSpan: one SpanStreamDevice over a buffer of any content

SpanBuffers == UNION {[1 .. n -> Byte] : n \in 0 .. MaxSpanLength}

SpanConstructed ==
    /\ dev_kind = Span
    /\ dev_access = ReadWrite
    /\ m_buffer \in SpanBuffers
    /\ m_Length = Len(m_buffer)
    /\ m_Position = 0
    /\ r_buffer = << >>
    /\ r_ch = 0
    /\ h_len = 0
    /\ h_gpos = 0
    /\ h_ppos = 0
    /\ h_eof = FALSE
    /\ h_fail = FALSE
    /\ h_bounded = FALSE
    /\ h_wrote = NoWrite
    /\ call = NoCall
    /\ res = Return(0)
    /\ res_eof = FALSE
    /\ nops = 0

InitSpan == SeekIdle /\ SpanConstructed /\ FileIdle /\ SignStart /\ IdIdle /\ EncIdle

\* At most MaxCalls calls are made on the device; a write is of one byte
\* repeated.
NextSpan ==
    \/ \E size \in 0 .. MaxSpanLength + 1, byte \in Byte :
          nops < MaxCalls /\ SpanWriteBuffer([i \in 1 .. size |-> byte])
    \/ \E size \in 0 .. MaxSpanLength + 1 : nops < MaxCalls /\ SpanReadBuffer(size)
    \/ nops < MaxCalls /\ SpanReadChar
    \/ nops < MaxCalls /\ SpanPeek
    \/ \E offset \in 0 .. MaxSpanLength : nops < MaxCalls /\ SpanSeek(offset, Begin)

SpecSpan == InitSpan /\ [][NextSpan]_vars

\* SpecMem: one NullStreamDevice or one SpanStreamDevice, and every call

MemConstructed == DevConstructed /\ dev_kind \in {Null, Span}

InitMem == SeekIdle /\ MemConstructed /\ FileIdle /\ SignStart /\ IdIdle /\ EncIdle

NextMem ==
    \/ \E size \in 0 .. MaxObjectSize : NullWriteBuffer(size)
    \/ \E size \in 0 .. MaxObjectSize : NullReadBuffer(size)
    \/ NullReadChar
    \/ NullPeek
    \/ \E offset \in SSizeT, direction \in SeekDirection : NullSeek(offset, direction)
    \/ \E size \in 0 .. MaxObjectSize : SpanWriteBuffer(Zeros(size))
    \/ \E size \in 0 .. MaxObjectSize : SpanReadBuffer(size)
    \/ SpanReadChar
    \/ SpanPeek
    \/ \E offset \in SSizeT, direction \in SeekDirection : SpanSeek(offset, direction)

SpecMem == InitMem /\ [][NextMem]_vars

\* SpecStd: one StandardStreamDevice over a stream of any access

StandardConstructed == DevConstructed /\ dev_kind = Standard

InitStd == SeekIdle /\ StandardConstructed /\ FileIdle /\ SignStart /\ IdIdle /\ EncIdle

\* The offsets of the seeks: one step back and forth, the ends of the
\* content, and the largest offset; and the sizes of the buffers: empty,
\* one byte, and the largest object.
StdOffsets == {-1, 0, 1, MaxHostLength, MaxObjectSize}
StdSizes == {0, 1, MaxObjectSize}

NextStd ==
    \/ \E offset \in StdOffsets, direction \in SeekDirection : StandardSeek(offset, direction)
    \/ \E size \in StdSizes, accepted \in BOOLEAN : StandardWriteBuffer(size, accepted)
    \/ \E size \in StdSizes : StandardReadBuffer(size)

SpecStd == InitStd /\ [][NextStd]_vars

\* SpecId: two PdfSignerId values, compared and hashed

InitId == SeekIdle /\ DevIdle /\ FileIdle /\ SignStart /\ IdsChosen /\ EncIdle

NextId == CompareIds

SpecId == InitId /\ [][NextId]_vars

\* SpecFile: createFile and the life of a FileStreamDevice

InitFile == SeekIdle /\ DevIdle /\ FileStart /\ SignStart /\ IdIdle /\ EncIdle

NextFile ==
    \/ \E mode \in FileMode, access \in FileAccess, hostOk \in BOOLEAN :
          Construct(mode, access, hostOk)
    \/ \E rc \in {"0", "EOF", "abort"} : Close(rc)
    \/ \E rc \in {"0", "EOF", "abort"} : Destroy(rc)

SpecFile == InitFile /\ [][NextFile]_vars

\* SpecSign: one signing context

InitSign == SeekIdle /\ DevIdle /\ FileIdle /\ SignStart /\ IdIdle /\ EncIdle

NextSign ==
    \/ \E ref \in 1 .. MaxFields : AddSigner(ref)
    \/ StartSigning
    \/ Sign
    \/ \E deviceOk \in BOOLEAN : SaveDocForSigning(deviceOk)
    \/ AppendDataForSigning
    \/ \E processedResults \in SUBSET m_contexts : \E written \in SUBSET processedResults :
          FinishSigning(processedResults, written)

SpecSign == InitSign /\ [][NextSign]_vars

\* SpecEnc: one encoding map and the lookups on it

InitEnc == SeekIdle /\ DevIdle /\ FileIdle /\ SignStart /\ IdIdle /\ EncConstructed

NextEnc ==
    \/ \E text \in Utf8Texts, code \in CallerCharCodes : CallTryGetNextCharCode(text, code)
    \/ \E codePoint \in CodePoint, codeUnit \in CallerCharCodes :
          CallTryGetCharCode(codePoint, codeUnit)
    \/ \E codePoints \in CodePointSpans, codeUnit \in CallerCharCodes :
          CallTryGetCharCodeOfSpan(codePoints, codeUnit)
    \/ \E text \in ByteTexts, cid \in CallerCIDs : CallTryGetNextCID(text, cid)
    \/ \E text \in ByteTexts, codePoints \in CallerCodePoints :
          CallTryGetNextCodePoints(text, codePoints)
    \/ \E codeUnit \in LookupCharCodes, cid \in CallerCIDIds : CallTryGetCIDId(codeUnit, cid)
    \/ \E codeUnit \in LookupCharCodes, codePoints \in CallerCodePoints :
          CallTryGetCodePoints(codeUnit, codePoints)
    \/ CallAppendToUnicodeEntries
    \/ CallAppendCIDMappingEntries
    \/ CallAppendCodeSpaceRange
    \/ CallGetLimits
    \/ Discard

SpecEnc == InitEnc /\ [][NextEnc]_vars

\* SpecCMap: one encoding map and its serializers

InitCMap == SeekIdle /\ DevIdle /\ FileIdle /\ SignStart /\ IdIdle /\ CMapConstructed

NextCMap ==
    \/ CallAppendToUnicodeEntries
    \/ CallAppendCIDMappingEntries
    \/ CallAppendCodeSpaceRange
    \/ CallGetLimits
    \/ Discard

SpecCMap == InitCMap /\ [][NextCMap]_vars

\* ------------------------------------------------------------------------
\* SpecSeek: SeekPosition applied to every argument tuple
\* ------------------------------------------------------------------------

InitSeek == SeekArguments /\ DevIdle /\ FileIdle /\ SignStart /\ IdIdle /\ EncIdle

NextSeek == CallSeekPosition

SpecSeek == InitSeek /\ [][NextSeek]_vars

\* ------------------------------------------------------------------------
\* Properties of SeekPosition (checked under SpecSeek)
\* ------------------------------------------------------------------------

SeekCalled(direction) == sk_called /\ sk_direction = direction

\* C3 as stated: with direction Begin, SeekPosition returns offset for every
\* offset in [0, length] and fails with ValueOutOfRange both for offset < 0
\* and for offset > length, whatever the current position.
C3_BeginNegativeIsValueOutOfRange ==
    SeekCalled(Begin) =>
        IF 0 <= sk_offset /\ sk_offset <= sk_devlen
        THEN sk_result = Return(sk_offset)
        ELSE sk_result.err = ValueOutOfRange

\* C3 amended: with direction Begin, SeekPosition returns offset for every
\* offset in [0, length], fails with IOError when offset < 0 and fails with
\* ValueOutOfRange when offset > length, whatever the current position.
C3_SeekBegin ==
    SeekCalled(Begin) =>
        /\ (0 <= sk_offset /\ sk_offset <= sk_devlen) => sk_result = Return(sk_offset)
        /\ sk_offset < 0 => sk_result.err = IOError
        /\ sk_offset > sk_devlen => sk_result.err = ValueOutOfRange

C3_Witness ==
    /\ SeekCalled(Begin)
    /\ sk_offset < 0
    /\ sk_curpos > 0
    /\ sk_result.err = IOError

\* C4: with direction Current and currentPos <= length, offset 0 returns
\* currentPos; a positive offset greater than length - currentPos and a
\* negative offset of magnitude greater than currentPos fail with
\* ValueOutOfRange; every other offset returns currentPos + offset, which
\* lies in [0, length].
C4_SeekCurrent ==
    (SeekCalled(Current) /\ sk_curpos <= sk_devlen) =>
        /\ sk_offset = 0 => sk_result = Return(sk_curpos)
        /\ (sk_offset > 0 /\ sk_offset > sk_devlen - sk_curpos)
              => sk_result.err = ValueOutOfRange
        /\ (sk_offset < 0 /\ -sk_offset > sk_curpos)
              => sk_result.err = ValueOutOfRange
        /\ (-sk_curpos <= sk_offset /\ sk_offset <= sk_devlen - sk_curpos)
              => /\ sk_result = Return(sk_curpos + sk_offset)
                 /\ sk_result.val \in 0 .. sk_devlen

C4_Witness ==
    /\ SeekCalled(Current)
    /\ sk_curpos <= sk_devlen
    /\ sk_offset < 0
    /\ sk_result = Return(sk_curpos + sk_offset)
    /\ sk_result.val > 0

\* C5: with direction End, SeekPosition fails with IOError for every
\* offset > 0, fails with ValueOutOfRange when the magnitude of a negative
\* offset exceeds length, and otherwise returns length + offset; a direction
\* outside Begin/Current/End fails with InvalidEnumValue.
C5_SeekEnd ==
    /\ SeekCalled(End) =>
          /\ sk_offset > 0 => sk_result.err = IOError
          /\ (sk_offset < 0 /\ -sk_offset > sk_devlen)
                => sk_result.err = ValueOutOfRange
          /\ (sk_offset <= 0 /\ -sk_offset <= sk_devlen)
                => sk_result = Return(sk_devlen + sk_offset)
    /\ (sk_called /\ sk_direction \notin {Begin, Current, End})
          => sk_result.err = InvalidEnumValue

C5_Witness ==
    /\ SeekCalled(End)
    /\ sk_devlen > 0
    /\ sk_offset = -sk_devlen
    /\ sk_result = Return(0)

\* ------------------------------------------------------------------------
\* Properties of the devices (checked under Spec)
\* ------------------------------------------------------------------------

Called(kind, name) == dev_kind = kind /\ call.op = name

\* C1: on a SpanStreamDevice of length L at position P <= L, a write of
\* L-P+1 bytes fails with ValueOutOfRange (and moves nothing), and a write
\* of exactly L-P bytes succeeds and leaves position == L and Eof() true.
C1_SpanWriteBound ==
    Called(Span, "write") =>
        /\ call.pos <= call.len
        /\ call.size = call.len - call.pos + 1
              => (res.err = ValueOutOfRange /\ m_Position = call.pos)
        /\ call.size = call.len - call.pos
              => (res.err = NoError /\ m_Position = m_Length /\ Eof)
        /\ m_Length = call.len

C1_Witness ==
    /\ Called(Span, "write")
    /\ call.pos > 0
    /\ call.size > 0
    /\ call.size = call.len - call.pos
    /\ res.err = NoError
    /\ m_Position = m_Length

\* C2 as stated: on a freshly constructed NullStreamDevice, writing N bytes
\* gives length == N and position == N, and the read of size M that follows
\* returns min(M, N) bytes read, with Eof() true iff the position reaches N.
C2_ReadAfterWriteReturnsMin ==
    [][dev_kind = Null =>
          /\ (nops = 0 /\ call'.op = "write")
                => (m_Length' = call'.size /\ m_Position' = call'.size)
          /\ (nops = 1 /\ call.op = "write" /\ call'.op = "read")
                => /\ res'.val = Min(call'.size, call.size)
                   /\ Eof' <=> (m_Position' = call.size)]_vars

\* C2 amended: on a freshly constructed NullStreamDevice, writing N bytes
\* gives length == N and position == N; a later read of size M made at
\* position P of a device of length N returns min(M, N - P) bytes read (0
\* right after the write, min(M, N) once the position was moved back to 0),
\* advances the position by that count, keeps the length, and reports eof,
\* as Eof() does, iff the position reaches N.
C2_NullGrowth ==
    dev_kind = Null =>
        /\ (nops = 1 /\ call.op = "write")
              => (m_Length = call.size /\ m_Position = call.size)
        /\ (call.op = "read" /\ call.len <= MaxObjectSize)
              => /\ res = Return(Min(call.size, call.len - call.pos))
                 /\ m_Position = call.pos + res.val
                 /\ m_Length = call.len
                 /\ Eof <=> (m_Position = call.len)
                 /\ res_eof = Eof

C2_Witness ==
    /\ Called(Null, "read")
    /\ call.pos = 0
    /\ call.len > 1
    /\ call.size > 0
    /\ call.size < call.len
    /\ res.val = call.size
    /\ ~Eof

\* The outcome SeekPosition gives for the last seek of the device.
SharedOutcome == SeekPosition(call.pos, call.len, call.offset, call.direction)

\* C6 as stated: each of the four devices accepts a seek exactly when
\* SeekPosition(currentPos, length, offset, direction) succeeds, the new
\* position is then SeekPosition's result, and a rejected seek fails with
\* SeekPosition's error.
C6_AllDevicesUseSeekPosition ==
    call.op = "seek" =>
        /\ res.err = SharedOutcome.err
        /\ res.err = NoError => GetPosition = SharedOutcome.val
        /\ res.err # NoError => GetPosition = call.pos

\* C6 amended: NullStreamDevice and SpanStreamDevice accept a seek exactly
\* when SeekPosition(currentPos, length, offset, direction) succeeds, the new
\* position is then SeekPosition's result, and a rejected seek fails with
\* SeekPosition's error and moves nothing. StandardStreamDevice and
\* FileStreamDevice pass offset and direction to the host stream instead:
\* they never raise ValueOutOfRange (a rejected seek is an IOError, or
\* InvalidEnumValue for an undefined direction), a rejected seek moves
\* nothing, and an accepted one lands on the host's target, which for a file
\* may lie past the length.
C6_SeekResolution ==
    call.op = "seek" =>
        /\ dev_kind \in {Null, Span} =>
              /\ res.err = SharedOutcome.err
              /\ res.err = NoError => m_Position = SharedOutcome.val
              /\ res.err # NoError => m_Position = call.pos
              /\ m_Position <= m_Length
        /\ dev_kind \in {Standard, File} =>
              /\ res.err \in {NoError, IOError, InvalidEnumValue}
              /\ res.err = InvalidEnumValue <=> call.direction \notin {Begin, Current, End}
              /\ res.err = NoError =>
                    GetPosition = HostSeekTarget(call.pos, call.len, call.offset, call.direction)
              /\ res.err # NoError => GetPosition = call.pos

C6_Witness ==
    /\ Called(File, "seek")
    /\ res.err = NoError
    /\ GetPosition > call.len
    /\ SharedOutcome.err = ValueOutOfRange

\* ------------------------------------------------------------------------
\* Properties of createFile and of close (checked under SpecFile)
\* ------------------------------------------------------------------------

\* The mode string of the table of modes for a mode, an access and the
\* existence of the file ("" where the table has none), with the binary
\* suffix of a host that tells binary from text streams.
TableString(mode, access, exists) ==
    CASE mode \in {CreateNew, Create, Truncate} /\ access = Write -> "w"
      [] mode \in {CreateNew, Create, Truncate} /\ access = ReadWrite -> "w+"
      [] mode = Open /\ access = Read -> "r"
      [] mode = Open /\ access = Write -> "w"
      [] mode = Open /\ access = ReadWrite -> "r+"
      [] mode = OpenOrCreate /\ access = Write -> "w"
      [] mode = OpenOrCreate /\ access = ReadWrite /\ exists -> "r+"
      [] mode = OpenOrCreate /\ access = ReadWrite /\ ~exists -> "w+"
      [] mode = AppendMode /\ access = Write -> "a"
      [] mode = AppendMode /\ access = ReadWrite -> "a+"
      [] OTHER -> ""

TabulatedMode ==
    TableString(f_request.mode, f_request.access, f_request.exists)
        \o (IF win32 THEN "b" ELSE "")

DefinedRequest ==
    /\ f_call = "createFile"
    /\ f_request.mode # BadMode
    /\ f_request.access \in DeviceAccess

\* C7: whenever createFile opens a file, the mode string it hands to the
\* host open is the one the table of modes gives for the mode, the access
\* and the existence of the file (with the binary suffix on a host that
\* tells binary from text): it depends on nothing else.
C7_ModeTable ==
    f_fopen =>
        /\ TableString(f_request.mode, f_request.access, f_request.exists) # ""
        /\ f_cmode = TabulatedMode

C7_Witness ==
    /\ f_call = "createFile"
    /\ f_fopen
    /\ ~win32
    /\ f_request = [mode |-> OpenOrCreate, access |-> ReadWrite, exists |-> TRUE]
    /\ f_cmode = "r+"
    /\ f_res = Return(0)

\* The requests the claim lists as rejected before any open.
RejectedAsStated ==
    \/ f_request.access = Read /\ f_request.mode # Open
    \/ f_request.mode = CreateNew /\ f_request.exists
    \/ f_request.mode = Truncate /\ ~f_request.exists
    \/ f_request.mode = Open /\ f_request.access = ReadWrite /\ ~f_request.exists

\* The requests the code rejects before any open: those, and Open with
\* Write access on a file that does not exist.
RejectedByCode ==
    \/ RejectedAsStated
    \/ f_request.mode = Open /\ f_request.access = Write /\ ~f_request.exists

\* What holds of a request of defined mode and access, given the set of
\* requests rejected before the host open.
RejectionLaw(rejected) ==
    DefinedRequest =>
        /\ rejected => (~f_fopen /\ f_res.err = IOError)
        /\ ~rejected =>
              /\ f_fopen
              /\ f_cmode = TabulatedMode
              /\ f_res.err \in {NoError, IOError}
              /\ f_res.err = NoError <=> (f_stage = "constructed" /\ m_file = "handle")
        /\ (f_request.mode = Open /\ f_request.access = Read /\ ~f_request.exists)
              => (f_fopen /\ f_res.err = IOError)

\* C8 as stated: createFile rejects with IOError before opening anything
\* exactly for Read access with a mode other than Open, CreateNew on an
\* existing file, Truncate on a missing file and Open with ReadWrite on a
\* missing file; every other defined request (Open with Write included)
\* reaches the host open with the tabulated mode string and fails only when
\* the host open fails, with IOError.
C8_OpenWriteReachesHostOpen == RejectionLaw(RejectedAsStated)

\* C8 amended: createFile rejects with IOError before opening anything
\* exactly for Read access with a mode other than Open, CreateNew on an
\* existing file, Truncate on a missing file and Open with Write or
\* ReadWrite access on a missing file; every other defined request reaches
\* the host open with the tabulated mode string and fails only when the host
\* open fails, with IOError (so Open with Read on a missing file fails with
\* IOError).
C8_Rejections == RejectionLaw(RejectedByCode)

C8_Witness ==
    /\ DefinedRequest
    /\ f_request = [mode |-> Open, access |-> Write, exists |-> FALSE]
    /\ ~f_fopen
    /\ f_res.err = IOError

\* C9: close() on a device whose handle a close already closed with success
\* is a no-op that raises nothing, so that at most one host close ever
\* succeeds on a device and none is made after it; a close() whose host
\* close fails raises IOError; and the destructor, which calls close(),
\* lets no error of close escape.
C9_CloseIdempotent ==
    /\ f_closes <= f_failed + 1
    /\ f_call = "close" =>
          /\ f_rc = "none" => (f_res = Return(0) /\ m_file = "nullptr")
          /\ f_rc = "0" => (f_res = Return(0) /\ m_file = "nullptr")
          /\ f_rc = "EOF" => f_res.err = IOError
    /\ (f_stage = "constructed" /\ m_file = "nullptr") => f_closes = f_failed + 1
    /\ f_call = "destructor" => f_res.err \in {NoError, Aborted}
    /\ (f_call = "destructor" /\ f_rc # "abort") => f_res = Return(0)

C9_Witness ==
    /\ f_call = "close"
    /\ f_ncalls >= 3
    /\ f_closes = 1
    /\ f_failed = 0
    /\ f_rc = "none"
    /\ f_res = Return(0)

\* ------------------------------------------------------------------------
\* Properties of the signing context (checked under SpecSign)
\* ------------------------------------------------------------------------

\* C10: after StartSigning on a context with several registered signers, a
\* FinishSigning whose result map lacks the id of a registered signer fails:
\* it raises an error, the context is not Finalized by it, and the beacon of
\* a signer no FinishSigning was given a result for still holds its
\* placeholder; the context is Finalized by FinishSigning only with a
\* signature at the beacon of every signer.
C10_NoSilentFinalization ==
    /\ (/\ s_call = "FinishSigning"
        /\ s_sequential
        /\ s_state \in {AwaitingExternalSignatures, Finalized}
        /\ ~(m_contexts \subseteq s_processed))
          => /\ s_res.err # NoError
             /\ s_state # Finalized
             /\ \A id \in m_contexts \ s_supplied : s_beacon[id] = "placeholder"
    /\ \A id \in m_contexts :
          (s_sequential /\ s_beacon[id] = "signature") => id \in s_supplied
    /\ (s_sequential /\ s_state = Finalized)
          => /\ m_contexts \subseteq s_processed
             /\ \A id \in m_contexts : s_beacon[id] = "signature"

C10_Witness ==
    /\ s_call = "FinishSigning"
    /\ Cardinality(m_contexts) >= 2
    /\ s_intermediate = m_contexts
    /\ \E id \in m_contexts, other \in m_contexts :
          /\ id.ref # other.ref
          /\ id \in s_processed
          /\ other \notin s_processed
          /\ s_beacon[id] = "signature"
          /\ s_beacon[other] = "placeholder"
    /\ s_res.err = SigningFailure
    /\ s_state = AwaitingExternalSignatures

\* C11: the signing context only moves forward along Unstarted -> Preparing
\* -> Saved -> AwaitingExternalSignatures (sequential procedure only) ->
\* Finalized, and once it has left Unstarted every AddSigner, StartSigning
\* and Sign is refused with InternalLogic and changes nothing of the
\* context: no signer is added and no second procedure starts.
SigningEdge(from, to) ==
    \/ to = from
    \/ from = Unstarted /\ to = Preparing
    \/ from = Preparing /\ to = Saved
    \/ from = Saved /\ to = AwaitingExternalSignatures /\ s_sequential
    \/ from = Saved /\ to = Finalized /\ ~s_sequential
    \/ from = AwaitingExternalSignatures /\ to = Finalized /\ s_sequential

C11_ForwardOnly ==
    [][/\ SigningEdge(s_state, s_state')
       /\ (s_state # Unstarted) =>
             /\ m_signers' = m_signers
             /\ m_contexts' = m_contexts
             /\ s_sequential' = s_sequential
       /\ (/\ s_pc = "idle"
           /\ s_state # Unstarted
           /\ s_call' \in {"AddSigner", "StartSigning", "Sign"})
             => /\ s_res'.err = InternalLogic
                /\ UNCHANGED <<s_state, s_pc, s_beacon, s_intermediate>>]_vars

C11_Witness ==
    /\ s_state = Finalized
    /\ s_sequential
    /\ m_signers # {}
    /\ s_call \in {"StartSigning", "Sign"}
    /\ s_res.err = InternalLogic

\* ------------------------------------------------------------------------
\* Properties of the encoding maps (checked under SpecEnc)
\* ------------------------------------------------------------------------

Looked(kind, name) == e_kind = kind /\ e_call.op = name

\* The codes whose forward table entry is the code point.
CodesOf(codePoint) == {c \in 0 .. TableSize - 1 : cpUnicodeTable[c] = codePoint}

\* C12 as stated: on a built-in encoding over any forward table, for every
\* code c with a non-null entry, tryGetCharCode(forwardTable[c]) returns
\* true and yields char code c with code size 1.
C12_ReverseYieldsEveryCode ==
    (/\ Looked(BuiltIn, "TryGetCharCode")
     /\ e_call.arg # NullCodePoint)
       => \A c \in CodesOf(e_call.arg) :
             /\ e_res.err = NoError
             /\ e_res.ok
             /\ e_res.out = PdfCharCode(c, 1)

\* C12 as amended: on a built-in encoding over any forward table, for every
\* code c with a non-null entry, tryGetCharCode(forwardTable[c]) returns
\* true and yields, with code size 1, the greatest code whose entry is
\* forwardTable[c]: it is c itself when no greater code has the same entry.
C12_ReverseYieldsGreatestCode ==
    (/\ Looked(BuiltIn, "TryGetCharCode")
     /\ e_call.arg # NullCodePoint
     /\ CodesOf(e_call.arg) # {})
       => /\ e_res.err = NoError
          /\ e_res.ok
          /\ e_res.out.CodeSpaceSize = 1
          /\ e_res.out.Code \in CodesOf(e_call.arg)
          /\ \A c \in CodesOf(e_call.arg) : c <= e_res.out.Code

C12_Witness ==
    /\ Looked(BuiltIn, "TryGetCharCode")
    /\ e_call.arg # NullCodePoint
    /\ CodesOf(e_call.arg) = 0 .. TableSize - 1
    /\ e_res.ok
    /\ e_res.out = PdfCharCode(TableSize - 1, 1)
    /\ DOMAIN m_EncodingTable # {}

\* C13: the reverse table of a built-in encoding never has an entry for the
\* null code point, and tryGetCharCode(U+0000) returns false with a cleared
\* char code, also when codes have a null forward entry.
C13_NullCodePointExcluded ==
    /\ (e_kind = BuiltIn) => NullCodePoint \notin DOMAIN m_EncodingTable
    /\ (/\ Looked(BuiltIn, "TryGetCharCode")
        /\ e_call.arg = NullCodePoint)
          => /\ e_res.err = NoError
             /\ ~e_res.ok
             /\ e_res.out = NoCharCode

\* The value of bytes read big-endian.
RECURSIVE BigEndian(_)
BigEndian(bytes) ==
    IF bytes = << >>
    THEN 0
    ELSE BigEndian(SubSeq(bytes, 1, Len(bytes) - 1)) * ByteMod + bytes[Len(bytes)]

\* C14: on a map of type Simple, TryGetNextCID on a text of at least
\* MaxCodeSize bytes returns true with the big-endian value of the first
\* MaxCodeSize bytes as the char code (of code size MaxCodeSize) and as the
\* CID, and advances the cursor by MaxCodeSize; on a shorter text it returns
\* false with the CID cleared.
C14_SimpleNextCID ==
    (/\ e_call.op = "TryGetNextCID"
     /\ m_Type = Simple)
       => LET n == GetLimits.MaxCodeSize
              value == BigEndian(SubSeq(e_call.text, 1, n))
          IN  /\ e_res.err = NoError
              /\ IF Len(e_call.text) >= n
                 THEN /\ e_res.ok
                      /\ e_res.out = PdfCID(value, PdfCharCode(value, n))
                      /\ e_res.it = 1 + n
                 ELSE /\ ~e_res.ok
                      /\ e_res.out = NoCID

C14_Witness ==
    /\ e_call.op = "TryGetNextCID"
    /\ m_Type = Simple
    /\ GetLimits.MaxCodeSize = 2
    /\ e_call.text = <<1, 0>>
    /\ e_call.out0 # NoCID
    /\ e_res.ok
    /\ e_res.out = PdfCID(ByteMod, PdfCharCode(ByteMod, 2))
    /\ e_res.it = 3

\* C15: TryGetCharCode on a span of code points returns, for a span of size
\* 1, the outcome of the single-code-point lookup; on a map without
\* ligature support a span of any other size, and on every map the empty
\* span, return false with the char code cleared and raise nothing; a span
\* of size 2 or more on a map with ligature support gets the outcome of the
\* ligature lookup.
C15_SpanLookup ==
    (e_call.op = "TryGetCharCodeOfSpan")
       => IF Len(e_call.arg) = 1
          THEN e_res = [tryGetCharCode(e_call.arg[1], e_call.out0)
                          EXCEPT !.table = m_EncodingTable]
          ELSE IF Len(e_call.arg) = 0 \/ ~HasLigaturesSupport
               THEN /\ e_res.err = NoError
                    /\ ~e_res.ok
                    /\ e_res.out = NoCharCode
               ELSE e_res = tryGetCharCodeSpan(e_call.arg, e_call.out0)

C15_Witness ==
    /\ e_call.op = "TryGetCharCodeOfSpan"
    /\ e_kind = BuiltIn
    /\ Len(e_call.arg) = 2
    /\ e_call.out0 # NoCharCode
    /\ \A i \in 1 .. 2 : CodesOf(e_call.arg[i]) # {}
    /\ e_res.err = NoError
    /\ ~e_res.ok
    /\ e_res.out = NoCharCode

\* The cleared state of the output argument of a lookup.
Cleared(op) ==
    CASE op \in {"TryGetNextCharCode", "TryGetCharCode", "TryGetCharCodeOfSpan"} -> NoCharCode
      [] op = "TryGetNextCID" -> NoCID
      [] op \in {"TryGetNextCodePoints", "TryGetCodePoints"} -> NoCodePoints
      [] op = "TryGetCIDId" -> 0

LookupOps ==
    {"TryGetNextCharCode", "TryGetCharCode", "TryGetCharCodeOfSpan", "TryGetNextCID",
     "TryGetNextCodePoints", "TryGetCodePoints", "TryGetCIDId"}

\* C16: a lookup of a map that is bound to its table reports a miss by
\* returning false, never by raising, and whenever it returns false its
\* output argument is cleared, whatever the caller had in it.
C16_MissClearsOutput ==
    (/\ e_call.op \in LookupOps
     /\ e_kind \in {BuiltIn, TableBacked})
       => /\ (e_res.err = NoError /\ ~e_res.ok) => e_res.out = Cleared(e_call.op)
          /\ e_res.err \in {NoError, InvalidUtf8}

\* The calls on a map.
MapOps ==
    LookupOps \cup {"GetLimits", "AppendToUnicodeEntries", "AppendCIDMappingEntries",
                    "AppendCodeSpaceRange"}

\* C17 as stated: every operation on a PdfNullEncodingMap fails with an
\* InternalLogic error for every input, an empty text cursor and an empty
\* code-point span included; none returns normally.
C17_NullMapAlwaysRaises ==
    (e_kind = NullMap /\ e_call.op \in MapOps) => e_res.err = InternalLogic

\* The calls on a PdfNullEncodingMap that the base class answers before it
\* reaches the map: TryGetNextCharCode on an empty cursor, and
\* TryGetCharCode on a span that is not of one code point.
NullMapEarlyOut ==
    \/ e_call.op = "TryGetNextCharCode" /\ e_call.text = << >>
    \/ e_call.op = "TryGetCharCodeOfSpan" /\ Len(e_call.arg) # 1

\* C17 (amended): on a PdfNullEncodingMap, TryGetNextCharCode on an empty
\* cursor and TryGetCharCode on a span that is not of exactly one code
\* point return false with the code cleared; TryGetNextCharCode on bytes
\* that are not UTF-8 fails in the decoder; every other call fails with an
\* InternalLogic error, and AppendCodeSpaceRange has by then written its
\* first line.
C17_NullMapRaisesPastEarlyOuts ==
    (e_kind = NullMap /\ e_call.op \in MapOps) =>
        IF NullMapEarlyOut
        THEN e_res.err = NoError /\ ~e_res.ok /\ e_res.out = NoCharCode
        ELSE IF e_call.op = "TryGetNextCharCode" /\ Utf8Malformed(e_call.text, 1)
             THEN e_res.err = InvalidUtf8
             ELSE /\ e_res.err = InternalLogic
                  /\ e_stream = IF e_call.op = "AppendCodeSpaceRange"
                                THEN "1 begincodespacerange\n" ELSE ""

C17_Witness ==
    /\ e_kind = NullMap
    /\ e_call.op = "TryGetNextCharCode"
    /\ e_call.text = << >>
    /\ e_call.out0 # NoCharCode
    /\ e_res.err = NoError

\* The orders in which the elements of a sequence without repetitions can
\* have been inserted, and the tables with the content of a table.
Arrangements(seq) ==
    {p \in [1 .. Len(seq) -> {seq[i] : i \in 1 .. Len(seq)}] :
        {p[i] : i \in 1 .. Len(seq)} = {seq[i] : i \in 1 .. Len(seq)}}

SameContent(charMap) ==
    {[mappings |-> m, ranges |-> r] :
        m \in Arrangements(charMap.mappings), r \in Arrangements(charMap.ranges)}

\* The entries of a table in ascending order of their char code.
InCharCodeOrder(entries, Key(_)) ==
    CHOOSE p \in Arrangements(entries) :
        \A i, j \in 1 .. Len(p) : i < j => CharCodeLess(Key(p[i]), Key(p[j]))

\* A block: the count of its lines, its opening keyword, its lines, its
\* closing keyword; nothing for no lines.
Block(lines, keyword) ==
    IF lines = << >>
    THEN ""
    ELSE FormatTo(Len(lines)) \o " begin" \o keyword \o "\n"
           \o Written(lines) \o "end" \o keyword \o "\n"

\* What the claim expects of the two serializers for a table.
SortedBlocks(charMap, op) ==
    LET KeyOfMapping(m) == m.code
        KeyOfRange(r) == r.srcCodeLo
        singles == InCharCodeOrder(charMap.mappings, KeyOfMapping)
        ranges == InCharCodeOrder(charMap.ranges, KeyOfRange)
        lo(k) == WriteHexTo(ranges[k].srcCodeLo)
        hi(k) == WriteHexTo(GetSrcCodeHi(ranges[k]))
    IN  IF op = "AppendCIDMappingEntries"
        THEN Block([k \in 1 .. Len(singles) |->
                       WriteHexTo(singles[k].code) \o " "
                         \o FormatTo(singles[k].cps[1]) \o "\n"], "cidchar")
             \o Block([k \in 1 .. Len(ranges) |->
                          lo(k) \o hi(k) \o " "
                            \o FormatTo(ranges[k].dstCodeLo[1]) \o "\n"], "cidrange")
        ELSE Block([k \in 1 .. Len(singles) |->
                       WriteHexTo(singles[k].code) \o " "
                         \o AppendUTF16CodeTo(singles[k].cps) \o "\n"], "bfchar")
             \o Block([k \in 1 .. Len(ranges) |->
                          lo(k) \o hi(k) \o " "
                            \o AppendUTF16CodeTo(ranges[k].dstCodeLo) \o "\n"], "bfrange")

BaseSerializers == {"AppendCIDMappingEntries", "AppendToUnicodeEntries"}

BaseSerializer(charMap, op) ==
    IF op = "AppendCIDMappingEntries"
    THEN BaseCIDMappingEntries(charMap)
    ELSE BaseToUnicodeEntries(charMap)

\* C18: the CID and ToUnicode serializers of PdfEncodingMapBase write the
\* same output for every table with the same mappings and ranges, whatever
\* the order they were inserted in: the single mappings and the ranges are
\* each written in ascending char-code order, one line per entry, after a
\* count that is the number of the lines.
C18_InsertionOrderIndependent ==
    (e_kind = TableBacked /\ e_call.op \in BaseSerializers) =>
        /\ e_res.err = NoError
        /\ e_stream = SortedBlocks(m_charMap, e_call.op)
        /\ \A other \in SameContent(m_charMap) :
              BaseSerializer(other, e_call.op) = e_stream

C18_Witness ==
    /\ e_kind = TableBacked
    /\ e_call.op = "AppendToUnicodeEntries"
    /\ Len(m_charMap.mappings) = MaxMappings
    /\ Len(m_charMap.ranges) >= 2
    /\ CharCodeLess(m_charMap.mappings[2].code, m_charMap.mappings[1].code)
    /\ CharCodeLess(m_charMap.ranges[2].srcCodeLo, m_charMap.ranges[1].srcCodeLo)
    /\ e_stream # ""

\* The literals the claim expects between the brackets: one for each code
\* from code to lastCode whose forward table entry is not null.
RECURSIVE MappedLiterals(_, _)
MappedLiterals(code, lastCode) ==
    IF code > lastCode
    THEN ""
    ELSE (IF cpUnicodeTable[code] = NullCodePoint
          THEN ""
          ELSE AppendUTF16CodeTo(<<cpUnicodeTable[code]>>) \o "\n")
           \o MappedLiterals(code + 1, lastCode)

\* The token sequence of the claim, with what stands between the two hex
\* literals of the range.
OneByteTokens(between) ==
    "1 beginbfrange\n"
      \o WriteHexTo(m_Limits.FirstChar) \o between \o WriteHexTo(m_Limits.LastChar)
      \o " [\n"
      \o MappedLiterals(m_Limits.FirstChar.Code, m_Limits.LastChar.Code)
      \o "]\n" \o "endbfrange\n"

\* C19 as stated: PdfEncodingMapOneByte::AppendToUnicodeEntries writes
\* "1 beginbfrange", the hex literal of FirstChar immediately followed by
\* that of LastChar, " [", one UTF-16 literal and a newline for each code
\* from First to Last that has a mapping and nothing for a code whose
\* forward table entry is null, then "]" and "endbfrange".
C19_OneByteTokenSequence ==
    (e_kind = BuiltIn /\ e_call.op = "AppendToUnicodeEntries") =>
        e_stream = OneByteTokens("")

\* The same with the space the code writes between the two hex literals:
\* what is left is the literal written for a null forward table entry.
OneByteNullEntriesOmitted ==
    (e_kind = BuiltIn /\ e_call.op = "AppendToUnicodeEntries") =>
        e_stream = OneByteTokens(" ")

OneByteNoNullEntry ==
    (/\ e_kind = BuiltIn /\ e_call.op = "AppendToUnicodeEntries"
     /\ \A code \in 0 .. TableSize - 1 : cpUnicodeTable[code] # NullCodePoint)
        => e_stream = OneByteTokens(" ")

\* The bytes of the span from offset position on, count of them.
SpanBytes(position, count) == [i \in 1 .. count |-> m_buffer[position + i]]

\* C20: on a SpanStreamDevice of length L at position P, a read of n bytes
\* transfers the min(n, L - P) bytes of the buffer from offset P on,
\* advances the position by that count and reports eof exactly when the new
\* position is L; readChar returns false with the null character iff
\* P = L, and otherwise returns the byte at P and advances by one; peek
\* returns the flag and the character readChar would, and leaves the
\* position where it was.
C20_SpanReads ==
    dev_kind = Span =>
        LET L == call.len
            P == call.pos
        IN  /\ call.op = "read" =>
                /\ res = Return(Min(call.size, L - P))
                /\ r_buffer = SpanBytes(P, Min(call.size, L - P))
                /\ m_Position = P + Min(call.size, L - P)
                /\ res_eof <=> (m_Position = L)
            /\ call.op \in {"readChar", "peek"} =>
                /\ res.err = NoError
                /\ res.val <=> (P # L)
                /\ r_ch = IF P = L THEN 0 ELSE m_buffer[P + 1]
                /\ m_Position = IF call.op = "readChar" /\ P # L THEN P + 1 ELSE P
            /\ call.op \in {"read", "readChar", "peek"} => m_Length = L /\ Len(m_buffer) = L

C20_Witness ==
    /\ dev_kind = Span
    /\ call.op = "read"
    /\ call.pos = 1
    /\ call.size > call.len - call.pos
    /\ r_buffer = <<1>>
    /\ res_eof

\* The bits set in an unsigned value, and the value with a set of bits set.
BitsOf(value) == {i \in 0 .. 30 : (value \div (2 ^ i)) % 2 = 1}

RECURSIVE WithBits(_)
WithBits(bits) ==
    IF bits = {}
    THEN 0
    ELSE LET i == CHOOSE i \in bits : TRUE IN 2 ^ i + WithBits(bits \ {i})

SymmetricDifference(S, T) == (S \ T) \cup (T \ S)

\* objectNumber XOR (generationNumber << 16) XOR (signerIndex << 24)
StatedHash(id) ==
    WithBits(SymmetricDifference(
        SymmetricDifference(BitsOf(id.ref.ObjectNumber),
                            {i + 16 : i \in BitsOf(id.ref.GenerationNumber)}),
        {i + 24 : i \in BitsOf(id.index)}))

\* C21: a == b holds iff the signature references and the signer indices
\* are equal, a != b is the negation of a == b, a == b implies equal
\* hashes, and the hash is objectNumber XOR (generationNumber << 16) XOR
\* (signerIndex << 24).
C21_EqualityAndHash ==
    id_res.done =>
        /\ id_res.eq <=> (id_a.ref = id_b.ref /\ id_a.index = id_b.index)
        /\ id_res.ne <=> ~id_res.eq
        /\ id_res.eq => id_res.hashA = id_res.hashB
        /\ id_res.hashA = StatedHash(id_a)
        /\ id_res.hashB = StatedHash(id_b)

C21_Witness ==
    /\ id_res.done
    /\ id_res.eq
    /\ id_a.index = 1
    /\ id_a.ref.GenerationNumber = 256
    /\ id_a.ref.ObjectNumber = 65536
    /\ id_res.hashA = 65536

\* The code points the map holds for a char code: none when it has no
\* mapping.
MappedTo(unit) ==
    IF e_kind = BuiltIn
    THEN IF unit.Code < TableSize THEN {CodePointSpan(cpUnicodeTable[unit.Code])} ELSE {}
    ELSE {m_charMap.mappings[i].cps :
             i \in {j \in 1 .. Len(m_charMap.mappings) : m_charMap.mappings[j].code = unit}}

\* The char code of the first k bytes of a text.
PrefixCode(text, k) == PdfCharCode(BigEndian(SubSeq(text, 1, k)), k)

\* The lengths of the prefixes of a text that the decoder may match.
MatchingLengths(text) ==
    {k \in GetLimits.MinCodeSize .. GetLimits.MaxCodeSize :
        k <= Len(text) /\ MappedTo(PrefixCode(text, k)) # {}}

Least(S) == CHOOSE k \in S : \A n \in S : k <= n

\* C22: the decoder of char codes of any width succeeds exactly when a
\* prefix of the input of a length k from MinCodeSize to MaxCodeSize has a
\* mapping; it then yields the shortest such prefix as the char code of
\* size k, with its code points, and advances the cursor by k; when it
\* fails the cursor is where it was.
C22_ShortestPrefix ==
    (/\ e_kind \in {BuiltIn, TableBacked}
     /\ \/ e_call.op = "TryGetNextCodePoints"
        \/ e_call.op = "TryGetNextCID" /\ m_Type = CMap)
       => LET found == MatchingLengths(e_call.text)
              unit == PrefixCode(e_call.text, Least(found))
          IN  /\ e_res.err = NoError
              /\ e_call.op = "TryGetNextCodePoints" =>
                    /\ e_res.ok <=> (found # {})
                    /\ e_res.ok => /\ e_res.it = 1 + Least(found)
                                   /\ {e_res.out} = MappedTo(unit)
                    /\ ~e_res.ok => e_res.it = 1
              /\ e_call.op = "TryGetNextCID" =>
                    /\ e_res.ok => /\ found # {}
                                   /\ e_res.out.Unit = unit
                                   /\ MappedTo(unit) = {CodePointSpan(e_res.out.Id)}
                    /\ found = {} => ~e_res.ok /\ e_res.it = 1

\* A one-byte code for one byte and a two-byte code that starts with the
\* other byte: both bytes are consumed and the two-byte code is matched.
C22_Witness ==
    /\ e_kind = TableBacked
    /\ e_call.op = "TryGetNextCodePoints"
    /\ GetLimits.MinCodeSize = 1
    /\ GetLimits.MaxCodeSize = 2
    /\ e_call.text = <<0, 1>>
    /\ MappedTo(PdfCharCode(0, 1)) = {}
    /\ MappedTo(PdfCharCode(1, 2)) # {}
    /\ e_res.ok
    /\ e_res.it = 3

\* ---- StandardStreamDevice: a write through a read-write stream ---------

\* The last call was a write on a device with ReadWrite access.
SynchronizedWrite == Called(Standard, "write") /\ dev_access = ReadWrite

\* C23: a write of n bytes through a read-write stream with independent
\* position indicators takes the read-side position p, clears end-of-file,
\* moves the write indicator to p, writes, and moves the read indicator to
\* p + n: a write that returns has put its n bytes at the position p the
\* device reported before it, with end-of-file cleared and both indicators
\* at p + n, and a write during which the stream failed (the write itself,
\* or the final repositioning) raised IOError.
C23_WriteAtReadPosition ==
    SynchronizedWrite =>
        /\ res.err \in {NoError, IOError}
        /\ h_fail => res = Raise(IOError)
        /\ res.err = NoError =>
              /\ h_wrote = [done |-> TRUE, at |-> call.pos, size |-> call.size]
              /\ h_gpos = call.pos + call.size
              /\ h_ppos = call.pos + call.size
              /\ ~h_eof

\* A write of one byte that landed at position 1, where a seek had moved
\* the read indicator alone.
C23_Witness ==
    /\ SynchronizedWrite
    /\ res = Return(0)
    /\ call.pos = 1
    /\ call.size = 1
    /\ h_wrote.at = 1
    /\ h_gpos = 2
    /\ h_ppos = 2

\* ---- NullStreamDevice: readChar and peek --------------------------------

\* C24: readChar of a NullStreamDevice outputs the null character and
\* returns false whether or not a position was available: below the length
\* it advances the position by exactly one, at the length it leaves the
\* position unchanged; peek below the length returns true with the null
\* character and leaves the position unchanged.
C24_NullReadCharAndPeek ==
    /\ Called(Null, "readChar") =>
          /\ res = Return(FALSE)
          /\ r_ch = 0
          /\ m_Length = call.len
          /\ call.pos < call.len => m_Position = call.pos + 1
          /\ call.pos = call.len => m_Position = call.pos
    /\ Called(Null, "peek") =>
          /\ r_ch = 0
          /\ m_Position = call.pos
          /\ m_Length = call.len
          /\ call.pos < call.len => res = Return(TRUE)

\* A readChar below the length: it advanced to position 1 of a device of
\* length 2 and returned false.
C24_Witness ==
    /\ Called(Null, "readChar")
    /\ call.pos = 0
    /\ call.len = 2
    /\ m_Position = 1
    /\ res = Return(FALSE)

\* ---- NullStreamDevice and SpanStreamDevice: position and length --------

\* C25: on a NullStreamDevice and on a SpanStreamDevice the position stays
\* within 0 .. length after construction and after every read, readChar,
\* peek, write and seek, accepted or rejected; the length of a span stays
\* the size of its buffer, and the length of a null device never decreases
\* and grows only by a write that ends past it.
C25_PositionWithinLength ==
    dev_kind \in {Null, Span} =>
        /\ 0 <= m_Position
        /\ m_Position <= m_Length
        /\ dev_kind = Span =>
              /\ m_Length = Len(m_buffer)
              /\ call.op # "none" => m_Length = call.len
        /\ (dev_kind = Null /\ call.op # "none") =>
              /\ m_Length >= call.len
              /\ m_Length > call.len =>
                    /\ call.op = "write"
                    /\ m_Length = ToSize(call.pos + call.size)
                    /\ m_Position = m_Length

\* A rejected seek on a null device that a write had grown: position and
\* length are where the write left them.
C25_Witness ==
    /\ Called(Null, "seek")
    /\ res.err # NoError
    /\ nops = 2
    /\ m_Position = 2
    /\ m_Length = 2

\* ---- PdfEncodingMap: the cursor of a failed decode ----------------------

\* The decoders that move a cursor over the text.
CursorOps == {"TryGetNextCharCode", "TryGetNextCID", "TryGetNextCodePoints"}

\* The last call was a decoder that returned false.
FailedDecode ==
    /\ e_call.op \in CursorOps
    /\ e_res.err = NoError
    /\ ~e_res.ok

\* C26: whenever TryGetNextCharCode, TryGetNextCID or TryGetNextCodePoints
\* returns false, the cursor is where it was before the call (at the first
\* byte of the text): a failed decode consumes no input.
C26_FailedDecodeKeepsCursor == FailedDecode => e_res.it = 1

\* Where the cursor of a failed decode does stay: in TryGetNextCodePoints,
\* and in TryGetNextCharCode of a map with ligature support.
FailedDecodeKeepsCursorWhereRestored ==
    (/\ FailedDecode
     /\ \/ e_call.op = "TryGetNextCodePoints"
        \/ e_call.op = "TryGetNextCharCode" /\ e_ligatures)
       => e_res.it = 1

\* ---- FileStreamDevice: host closes of one handle ------------------------

\* C27: over the life of one FileStreamDevice its handle is passed to the
\* host close at most once: after a close() that made the host close, no
\* later close() and not the destructor makes another, also when that host
\* close failed and close() raised IOError.
C27_HostCloseAtMostOnce == f_closes <= 1

====
